---- MODULE Spec2Model ----
(***************************************************************************)
(* A model of the human-readable ABI fragment parser (ethers.js,           *)
(* abi/fragments.ts): the tokenizer `lex`, the TokenString cursor, the     *)
(* ParamType and Fragment factories, the mutability resolver and the       *)
(* formatter.  Texts are TLA+ strings; a character is a string of length   *)
(* one.  Token indices, offsets and cursors are 0-based as in the source;  *)
(* TLA+ sequences are 1-based, so token i of the source is tokens[i + 1].  *)
(***************************************************************************)
EXTENDS Integers, Sequences, FiniteSets, TLC

\* pc:   where the caller is: "call" before the factory is called, "done" after
\*       it returned or threw, "formatted" after format("json"), "reparsed"
\*       after the formatted text went through Fragment.from again
\* src:  the argument of the call (and how it was put together)
\* out:  what the factory returned (Ok) or that it threw (Err)
\* json: what format("json") of the returned fragment gave
\* back: what Fragment.from gave for that text
VARIABLES pc, src, out, json, back

vars == <<pc, src, out, json, back>>

(***************************************************************************)
(* Results of operations that may throw.                                   *)
(***************************************************************************)
Ok(v) == [ok |-> TRUE, val |-> v]

Err(e) == [ok |-> FALSE, err |-> e]

\* JavaScript null / undefined for a field that otherwise holds a value: the
\* empty tuple; a present value v is the one-element tuple <<v>>.
\* The rest of a block after a call that may throw: K continues with the
\* call's result r, and a throw of the call is the throw of the block
Try(r, K(_)) == IF r.ok THEN K(r) ELSE r

Null == <<>>

Some(v) == <<v>>

IsNull(o) == o = <<>>

(***************************************************************************)
(* Strings.                                                                *)
(***************************************************************************)
CharAt(s, i) == IF i >= 0 /\ i < Len(s) THEN SubSeq(s, i + 1, i + 1) ELSE ""

\* String.prototype.substring(from) and substring(from, to), 0-based
SubstringFrom(s, from) == SubSeq(s, from + 1, Len(s))

Substring(s, from, to) == SubSeq(s, from + 1, IF to > Len(s) THEN Len(s) ELSE to)

StartsWith(s, p) == Len(s) >= Len(p) /\ SubSeq(s, 1, Len(p)) = p

DigitChars == "0123456789"

Digits == { CharAt(DigitChars, i) : i \in 0..9 }

LetterChars == "abcdefghijklmnopqrstuvwxyzABCDEFGHIJKLMNOPQRSTUVWXYZ"

Letters == { CharAt(LetterChars, i) : i \in 0..51 }

WhitespaceChars == { " ", "\t", "\n", "\r" }

DigitValue(c) == CHOOSE d \in 0..9 : CharAt(DigitChars, d) = c

\* The length of the longest prefix of s whose characters are all in set
RECURSIVE PrefixRun(_, _, _)
PrefixRun(s, set, i) ==
    IF i < Len(s) /\ CharAt(s, i) \in set THEN PrefixRun(s, set, i + 1) ELSE i

\* parseInt on a string of decimal digits
RECURSIVE ParseDigits(_, _, _)
ParseDigits(s, i, acc) ==
    IF i >= Len(s) THEN acc
    ELSE ParseDigits(s, i + 1, acc * 10 + DigitValue(CharAt(s, i)))

parseInt(s) ==
    IF StartsWith(s, "-") THEN 0 - ParseDigits(s, 1, 0) ELSE ParseDigits(s, 0, 0)

\* getNumber(value) on the decimal digits of a NUMBER token
getNumber(s) == ParseDigits(s, 0, 0)

\* "a b c".split(" ")
RECURSIVE Split(_, _, _)
Split(s, i, word) ==
    IF i >= Len(s) THEN <<word>>
    ELSE IF CharAt(s, i) = " " THEN <<word>> \o Split(s, i + 1, "")
    ELSE Split(s, i + 1, word \o CharAt(s, i))

split(s) == Split(s, 0, "")

setify(items) == { items[i] : i \in 1..Len(items) }

(***************************************************************************)
(* Keywords and single-character tokens.                                   *)
(***************************************************************************)
kwVisib == "constant external internal payable private public pure view"

KwVisib == setify(split(kwVisib))

kwTypes == "constructor error event fallback function receive struct"

KwTypes == setify(split(kwTypes))

kwModifiers == "calldata memory storage payable indexed"

KwModifiers == setify(split(kwModifiers))

kwOther == "tuple returns"

Keywords == setify(split(kwTypes)) \cup setify(split(kwModifiers))
                \cup setify(split(kwOther)) \cup setify(split(kwVisib))

\* SimpleTokens[c], or "" when c is no single-character token
SimpleTokens(c) ==
    CASE c = "(" -> "OPEN_PAREN"
      [] c = ")" -> "CLOSE_PAREN"
      [] c = "[" -> "OPEN_BRACKET"
      [] c = "]" -> "CLOSE_BRACKET"
      [] c = "," -> "COMMA"
      [] c = "@" -> "AT"
      [] OTHER -> ""

(***************************************************************************)
(* The regular expressions.  Each operator gives what String.match gives:  *)
(* all four expressions are anchored at the start only (^), so each        *)
(* matches a prefix of its subject.                                        *)
(***************************************************************************)
\* regexWhitespace = ^(\s*): the length of match[1]
regexWhitespace(s) == PrefixRun(s, WhitespaceChars, 0)

\* regexNumber = ^([0-9]+): the length of match[1], 0 when there is no match
regexNumber(s) == PrefixRun(s, Digits, 0)

\* regexIdentifier = ^([a-zA-Z$_][a-zA-Z0-9$_]*): the length of match[1],
\* 0 when there is no match
regexIdentifier(s) ==
    IF Len(s) > 0 /\ CharAt(s, 0) \in (Letters \cup {"$", "_"})
    THEN PrefixRun(s, Letters \cup Digits \cup {"$", "_"}, 1)
    ELSE 0

\* The digits following the first n characters of s
DigitsAfter(s, n) == Substring(s, n, PrefixRun(s, Digits, n))

\* regexType = ^(address|bool|bytes([0-9]*)|string|u?int([0-9]*)): the
\* alternatives are tried in order on a prefix of s.  g2 and g3 are match[2]
\* and match[3]; a group that did not take part (undefined) is "", which is
\* as falsy as the empty match.
regexType(s) ==
    CASE StartsWith(s, "address") -> [matched |-> TRUE, g2 |-> "", g3 |-> ""]
      [] StartsWith(s, "bool") -> [matched |-> TRUE, g2 |-> "", g3 |-> ""]
      [] StartsWith(s, "bytes") ->
            [matched |-> TRUE, g2 |-> DigitsAfter(s, 5), g3 |-> ""]
      [] StartsWith(s, "string") -> [matched |-> TRUE, g2 |-> "", g3 |-> ""]
      [] StartsWith(s, "uint") ->
            [matched |-> TRUE, g2 |-> "", g3 |-> DigitsAfter(s, 4)]
      [] StartsWith(s, "int") ->
            [matched |-> TRUE, g2 |-> "", g3 |-> DigitsAfter(s, 3)]
      [] OTHER -> [matched |-> FALSE, g2 |-> "", g3 |-> ""]

\* regexArrayType = ^(.*)\[([0-9]*)\]$: the subject must end with "[", digits
\* and "]"; g1 is what precedes that suffix and g2 the digits.
RECURSIVE DigitRunBack(_, _)
DigitRunBack(s, i) ==
    IF i >= 0 /\ CharAt(s, i) \in Digits THEN DigitRunBack(s, i - 1) ELSE i

regexArrayType(s) ==
    LET open == DigitRunBack(s, Len(s) - 2)
    IN IF Len(s) >= 2 /\ CharAt(s, Len(s) - 1) = "]" /\ open >= 0
          /\ CharAt(s, open) = "["
       THEN [matched |-> TRUE, g1 |-> Substring(s, 0, open),
             g2 |-> Substring(s, open + 1, Len(s) - 1)]
       ELSE [matched |-> FALSE, g1 |-> "", g2 |-> ""]

(***************************************************************************)
(* The tokenizer.                                                          *)
(***************************************************************************)
NewToken(depth, offset) ==
    [depth |-> depth, linkBack |-> -1, linkNext |-> -1, match |-> -1,
     type |-> "", text |-> "", offset |-> offset, value |-> -1]

Last(s) == s[Len(s)]

Front(s) == SubSeq(s, 1, Len(s) - 1)

\* One "(" , ")" , "," , "[" , "]" or "@" (the if (type) branch of lex)
lexSimple(tokens, brackets, commas, token, type, c) ==
    LET idx == Len(tokens)
        t == [token EXCEPT !.type = type, !.text = c]
    IN CASE type = "OPEN_PAREN" ->
              Ok([tokens |-> Append(tokens, t),
                  brackets |-> Append(brackets, idx),
                  commas |-> Append(commas, idx)])
         [] type = "CLOSE_PAREN" ->
              IF Len(brackets) = 0 THEN Err("no matching open bracket")
              ELSE LET m == Last(brackets)
                       lb == Last(commas)
                       t2 == [t EXCEPT !.match = m, !.depth = t.depth - 1,
                                       !.linkBack = lb]
                       ts1 == [tokens EXCEPT ![m + 1].match = idx]
                       ts2 == [ts1 EXCEPT ![lb + 1].linkNext = idx]
                   IN Ok([tokens |-> Append(ts2, t2),
                          brackets |-> Front(brackets),
                          commas |-> Front(commas)])
         [] type = "COMMA" ->
              \* commas.pop() of an empty array is undefined, and the
              \* assignment to tokens[undefined].linkNext throws a TypeError
              IF Len(commas) = 0 THEN Err("TypeError")
              ELSE LET lb == Last(commas)
                       t2 == [t EXCEPT !.linkBack = lb]
                       ts1 == [tokens EXCEPT ![lb + 1].linkNext = idx]
                   IN Ok([tokens |-> Append(ts1, t2),
                          brackets |-> brackets,
                          commas |-> Append(Front(commas), idx)])
         [] type = "OPEN_BRACKET" ->
              Ok([tokens |-> Append(tokens, [t EXCEPT !.type = "BRACKET"]),
                  brackets |-> brackets, commas |-> commas])
         [] type = "CLOSE_BRACKET" ->
              \* the CLOSE_BRACKET token is popped again; tokens is the list
              \* before it was pushed
              LET hasNum == Len(tokens) > 0 /\ Last(tokens).type = "NUMBER"
                  value == IF hasNum THEN Last(tokens).text ELSE ""
                  suffix == value \o c
                  ts1 == IF hasNum THEN Front(tokens) ELSE tokens
              IN IF hasNum /\ Len(ts1) = 0 THEN Err("TypeError")
                 ELSE IF Len(ts1) = 0 \/ Last(ts1).type # "BRACKET"
                 THEN Err("missing opening bracket")
                 ELSE LET n == Len(ts1)
                          ts2 == IF hasNum
                                 THEN [ts1 EXCEPT ![n].value = getNumber(value)]
                                 ELSE ts1
                      IN Ok([tokens |-> [ts2 EXCEPT ![n].text = @ \o suffix],
                             brackets |-> brackets, commas |-> commas])
         [] OTHER ->
              \* AT
              Ok([tokens |-> Append(tokens, t),
                  brackets |-> brackets, commas |-> commas])

\* An identifier-shaped word: KEYWORD, TYPE or ID
lexWord(word) ==
    IF word \in Keywords THEN "KEYWORD"
    ELSE IF regexType(word).matched THEN "TYPE"
    ELSE "ID"

\* The while loop of lex; offset is the 0-based position in text
RECURSIVE lexLoop(_, _, _, _, _)
lexLoop(text, offset0, tokens, brackets, commas) ==
    IF offset0 >= Len(text) THEN Ok(tokens)
    ELSE
      LET offset == offset0 + regexWhitespace(SubstringFrom(text, offset0))
          cur == SubstringFrom(text, offset)
          token == NewToken(Len(brackets), offset)
          type == SimpleTokens(CharAt(cur, 0))
          idLen == regexIdentifier(cur)
          numLen == regexNumber(cur)
      IN IF type # ""
         THEN Try(lexSimple(tokens, brackets, commas, token, type, CharAt(cur, 0)),
                  LAMBDA r : lexLoop(text, offset + 1, r.val.tokens,
                                     r.val.brackets, r.val.commas))
         ELSE IF idLen > 0
         THEN LET word == Substring(cur, 0, idLen)
                  t == [token EXCEPT !.text = word, !.type = lexWord(word)]
              IN lexLoop(text, offset + idLen, Append(tokens, t), brackets,
                         commas)
         ELSE IF numLen > 0
         THEN LET t == [token EXCEPT !.text = Substring(cur, 0, numLen),
                                     !.type = "NUMBER"]
              IN lexLoop(text, offset + numLen, Append(tokens, t), brackets,
                         commas)
         ELSE Err("unexpected token")

\* new TokenString(tokens): the cursor starts at 0
TokenString(tokens) == [tokens |-> tokens, offset |-> 0]

lex(text) ==
    Try(lexLoop(text, 0, <<>>, <<>>, <<>>), LAMBDA r : Ok(TokenString(r.val)))

(***************************************************************************)
(* TokenString: a token list and a cursor.  An operation that moves the    *)
(* cursor returns the moved TokenString as ts beside its value.            *)
(***************************************************************************)
Ret(ts, v) == [ok |-> TRUE, ts |-> ts, val |-> v]

length(ts) == Len(ts.tokens) - ts.offset

peek(ts) ==
    IF ts.offset >= Len(ts.tokens) THEN Err("out-of-bounds")
    ELSE Ok(ts.tokens[ts.offset + 1])

pop(ts) ==
    LET top == peek(ts)
    IN IF top.ok THEN Ret([ts EXCEPT !.offset = @ + 1], top.val) ELSE top

\* null is found = FALSE; otherwise text is the token's text
peekType(ts, type) ==
    IF length(ts) = 0 THEN [found |-> FALSE, text |-> ""]
    ELSE LET top == peek(ts).val
         IN IF top.type = type THEN [found |-> TRUE, text |-> top.text]
            ELSE [found |-> FALSE, text |-> ""]

peekKeyword(ts, allowed) ==
    LET top == peekType(ts, "KEYWORD")
    IN IF top.found /\ top.text \in allowed THEN top
       ELSE [found |-> FALSE, text |-> ""]

popKeyword(ts, allowed) ==
    LET top == peek(ts)
    IN IF ~top.ok THEN top
       ELSE IF top.val.type # "KEYWORD" \/ top.val.text \notin allowed
       THEN Err("expected keyword")
       ELSE Ret([ts EXCEPT !.offset = @ + 1], top.val.text)

popType(ts, type) ==
    LET top == peek(ts)
    IN IF ~top.ok THEN top
       ELSE IF top.val.type # type THEN Err("expected " \o type)
       ELSE Ret([ts EXCEPT !.offset = @ + 1], top.val.text)

\* tokens.slice(from, to) for 0 <= from
slice(tokens, from, to) ==
    SubSeq(tokens, from + 1, IF to > Len(tokens) THEN Len(tokens) ELSE to)

subTokenString(ts, from, to) ==
    LET part == slice(ts.tokens, from, to)
    IN TokenString([i \in 1..Len(part) |->
            [part[i] EXCEPT !.match = @ - from, !.linkBack = @ - from,
                            !.linkNext = @ - from]])

popParen(ts) ==
    LET top == peek(ts)
    IN IF ~top.ok THEN top
       ELSE IF top.val.type # "OPEN_PAREN" THEN Err("bad start")
       ELSE Ret([ts EXCEPT !.offset = top.val.match + 1],
                subTokenString(ts, ts.offset + 1, top.val.match + 1))

\* The while loop of popParams: one sub-stream per link from the cursor
RECURSIVE popParamsLoop(_, _, _)
popParamsLoop(ts, match, result) ==
    IF ts.offset < match - 1
    THEN LET link == peek(ts).val.linkNext
         IN popParamsLoop([ts EXCEPT !.offset = link], match,
                          Append(result, subTokenString(ts, ts.offset + 1, link)))
    ELSE result

popParams(ts) ==
    LET top == peek(ts)
    IN IF ~top.ok THEN top
       ELSE IF top.val.type # "OPEN_PAREN" THEN Err("bad start")
       ELSE Ret([ts EXCEPT !.offset = top.val.match + 1],
                popParamsLoop(ts, top.val.match, <<>>))

(***************************************************************************)
(* The consume functions.                                                  *)
(***************************************************************************)
\* for (const key in allowed.keys()): for-in enumerates the enumerable
\* string-keyed properties of the iterator object that keys() returns, and a
\* Set iterator has none, so the loop body runs for no key.
ForInKeys(allowed) == {}

allowSingle(set, allowed) ==
    LET included == { key \in ForInKeys(allowed) : key \in set }
    IN IF Cardinality(included) > 1 THEN Err("conflicting types") ELSE Ok(TRUE)

consumeName(type, tokens) ==
    IF peekKeyword(tokens, KwTypes).found
    THEN LET p == pop(tokens)
         IN IF p.val.text # type THEN Err("expected " \o type)
            ELSE popType(p.ts, "ID")
    ELSE popType(tokens, "ID")

RECURSIVE consumeKeywordsLoop(_, _, _)
consumeKeywordsLoop(tokens, allowed, keywords) ==
    LET keyword == peekType(tokens, "KEYWORD")
    IN IF ~keyword.found \/ keyword.text \notin allowed
       THEN Ret(tokens, keywords)
       ELSE IF keyword.text \in keywords THEN Err("duplicate keywords")
       ELSE consumeKeywordsLoop(pop(tokens).ts, allowed,
                                keywords \cup {keyword.text})

consumeKeywords(tokens, allowed) == consumeKeywordsLoop(tokens, allowed, {})

\* The coalesced mutability of a set of modifiers (the returns of
\* consumeMutability)
mutabilityOf(modifiers) ==
    IF "view" \in modifiers THEN "view"
    ELSE IF "pure" \in modifiers THEN "pure"
    ELSE IF "payable" \in modifiers THEN "payable"
    ELSE IF "nonpayable" \in modifiers THEN "nonpayable"
    ELSE IF "constant" \in modifiers THEN "view"
    ELSE "nonpayable"

consumeMutability(tokens) ==
    Try(consumeKeywords(tokens, KwVisib), LAMBDA m :
    Try(allowSingle(m.val, setify(split("constant payable nonpayable"))), LAMBDA a1 :
    Try(allowSingle(m.val, setify(split("pure view payable nonpayable"))), LAMBDA a2 :
        Ret(m.ts, mutabilityOf(m.val)))))

consumeEoi(tokens) ==
    IF length(tokens) # 0 THEN Err("unexpected tokens") ELSE Ret(tokens, TRUE)

\* verifyBasicType without the multiple-of-8 test of a numeric width
verifyBasicTypeAnyWidth(type) ==
    LET match == regexType(type)
    IN IF ~match.matched THEN Err("invalid type")
       ELSE IF type = "uint" THEN Ok("uint256")
       ELSE IF type = "int" THEN Ok("int256")
       ELSE IF match.g2 # ""
       THEN LET len == parseInt(match.g2)
            IN IF len # 0 /\ len <= 32 THEN Ok(type)
               ELSE Err("invalid bytes length")
       ELSE IF match.g3 # ""
       THEN LET size == parseInt(match.g3)
            IN IF size # 0 /\ size <= 256 THEN Ok(type)
               ELSE Err("invalid numeric width")
       ELSE Ok(type)

verifyBasicType(type) ==
    LET match == regexType(type)
    IN IF ~match.matched THEN Err("invalid type")
       ELSE IF type = "uint" THEN Ok("uint256")
       ELSE IF type = "int" THEN Ok("int256")
       ELSE IF match.g2 # ""
       THEN LET len == parseInt(match.g2)
            IN IF len # 0 /\ len <= 32 THEN Ok(type)
               ELSE Err("invalid bytes length")
       ELSE IF match.g3 # ""
       THEN LET size == parseInt(match.g3)
            IN IF size # 0 /\ size <= 256 /\ size % 8 = 0 THEN Ok(type)
               ELSE Err("invalid numeric width")
       ELSE Ok(type)

(***************************************************************************)
(* ParamType.                                                              *)
(***************************************************************************)
\* The constructor without its checks
ParamTypeUnchecked(name, type, baseType, indexed, components, arrayLength, arrayChildren) ==
    Ok([name |-> name, type |-> type, baseType |-> baseType,
        indexed |-> indexed, components |-> components,
        arrayLength |-> arrayLength, arrayChildren |-> arrayChildren])

\* new ParamType(_guard, name, type, baseType, indexed, components,
\* arrayLength, arrayChildren): indexed, components, arrayLength and
\* arrayChildren are Null or Some(value)
ParamType(name, type, baseType, indexed, components, arrayLength, arrayChildren) ==
    IF baseType = "array" /\ (IsNull(arrayLength) \/ IsNull(arrayChildren))
    THEN Err("")
    ELSE IF baseType # "array" /\ (~IsNull(arrayLength) \/ ~IsNull(arrayChildren))
    THEN Err("")
    ELSE IF baseType = "tuple" /\ IsNull(components) THEN Err("")
    ELSE IF baseType # "tuple" /\ ~IsNull(components) THEN Err("")
    ELSE Ok([name |-> name, type |-> type, baseType |-> baseType,
             indexed |-> indexed, components |-> components,
             arrayLength |-> arrayLength, arrayChildren |-> arrayChildren])

isArray(p) == p.baseType = "array"

isTuple(p) == p.baseType = "tuple"

\* items.join(sep)
RECURSIVE join(_, _)
join(items, sep) ==
    IF Len(items) = 0 THEN ""
    ELSE IF Len(items) = 1 THEN items[1]
    ELSE items[1] \o sep \o join(Tail(items), sep)

\* String(n) for an integer n >= 0
RECURSIVE String(_)
String(n) ==
    IF n < 10 THEN CharAt(DigitChars, n)
    ELSE String(n \div 10) \o CharAt(DigitChars, n % 10)

\* ParamType.format for the formats "sighash", "minimal" and "full"
RECURSIVE ParamType_format(_, _)
ParamType_format(p, format) ==
    LET body ==
          IF isArray(p)
          THEN ParamType_format(p.arrayChildren[1], format) \o "["
                 \o (IF p.arrayLength[1] < 0 THEN "" ELSE String(p.arrayLength[1]))
                 \o "]"
          ELSE IF isTuple(p)
          THEN (IF format # "sighash" THEN p.type ELSE "") \o "("
                 \o join([i \in 1..Len(p.components[1]) |->
                            ParamType_format(p.components[1][i], format)],
                         IF format = "full" THEN ", " ELSE ",")
                 \o ")"
          ELSE p.type
        idx == IF format # "sighash" /\ p.indexed = Some(TRUE)
               THEN " indexed" ELSE ""
        nm == IF format = "full" /\ p.name # "" THEN " " \o p.name ELSE ""
    IN body \o idx \o nm

\* wrapArray keeping the array length of the first suffix
wrapArrayKeepLength(cur, child, bracket) ==
    [type |-> cur.type \o bracket.text, baseType |-> "array", comps |-> Null,
     arrayLength |-> IF IsNull(cur.arrayLength) THEN Some(bracket.value)
                     ELSE cur.arrayLength,
     arrayChildren |-> Some(child)]

\* One pass of the array loop of ParamType.from: the type parsed so far
\* (child, already constructed from cur) becomes the element of a new array
\* level described by the BRACKET token
wrapArray(cur, child, bracket) ==
    [type |-> cur.type \o bracket.text, baseType |-> "array", comps |-> Null,
     arrayLength |-> Some(bracket.value), arrayChildren |-> Some(child)]

RECURSIVE arrayLoop(_, _)
arrayLoop(obj, cur) ==
    IF length(obj) # 0 /\ peekType(obj, "BRACKET").found
    THEN Try(pop(obj), LAMBDA p :
         Try(ParamType("", cur.type, cur.baseType, Null, cur.comps,
                       cur.arrayLength, cur.arrayChildren), LAMBDA child :
             arrayLoop(p.ts, wrapArray(cur, child.val, p.val))))
    ELSE Ret(obj, cur)

\* indexedKeyword without the allowIndexed test
indexedKeywordUngated(keywords, allowIndexed) ==
    IF "indexed" \in keywords THEN Ok(Some(TRUE)) ELSE Ok(Null)

\* The indexed keyword of a text parameter: allowed only with allowIndexed
indexedKeyword(keywords, allowIndexed) ==
    IF "indexed" \in keywords
    THEN IF ~allowIndexed THEN Err("") ELSE Ok(Some(TRUE))
    ELSE Ok(Null)

\* items.map((t) => f(t)) where f may throw: the first failure, else the
\* list of values
RECURSIVE collect(_)
collect(results) ==
    IF Len(results) = 0 THEN Ok(<<>>)
    ELSE IF ~results[1].ok THEN results[1]
    ELSE LET rest == collect(Tail(results))
         IN IF rest.ok THEN Ok(<<results[1].val>> \o rest.val) ELSE rest

\* ParamType.from(obj, allowIndexed) for a TokenString obj
RECURSIVE ParamType_fromTokens(_, _)
tupleHead(kwts) ==
    Try(popParams(kwts), LAMBDA params :
    Try(collect([i \in 1..Len(params.val) |->
                   ParamType_fromTokens(params.val[i], FALSE)]),
        LAMBDA comps :
          Ret(params.ts,
              [type |-> "tuple(" \o join([i \in 1..Len(comps.val) |->
                           ParamType_format(comps.val[i], "sighash")], ",")
                         \o ")",
               baseType |-> "tuple", comps |-> Some(comps.val),
               arrayLength |-> Null, arrayChildren |-> Null])))

basicHead(kwts) ==
    Try(popType(kwts, "TYPE"), LAMBDA t :
    Try(verifyBasicType(t.val), LAMBDA type :
        Ret(t.ts, [type |-> type.val, baseType |-> type.val,
                   comps |-> Null, arrayLength |-> Null,
                   arrayChildren |-> Null])))

named(ts, arr, indexed) ==
    LET id == peekType(ts, "ID")
        name == IF id.found THEN id.text ELSE ""
        rest == IF id.found THEN pop(ts).ts ELSE ts
    IN IF length(rest) # 0 THEN Err("leftover tokens")
       ELSE ParamType(name, arr.type, arr.baseType, indexed,
                      arr.comps, arr.arrayLength, arr.arrayChildren)

ParamType_fromTokens(obj, allowIndexed) ==
    Try(consumeKeywords(obj, setify(<<"tuple">>)), LAMBDA kw :
    Try(IF "tuple" \in kw.val \/ peekType(kw.ts, "OPEN_PAREN").found
        THEN tupleHead(kw.ts) ELSE basicHead(kw.ts), LAMBDA head :
    Try(arrayLoop(head.ts, head.val), LAMBDA arr :
    Try(consumeKeywords(arr.ts, KwModifiers), LAMBDA keywords :
    Try(indexedKeyword(keywords.val, allowIndexed), LAMBDA indexed :
        named(keywords.ts, arr.val, indexed.val))))))

\* ParamType.from(obj, allowIndexed) for a string obj
ParamType_fromText(text, allowIndexed) ==
    Try(lex(text), LAMBDA tokens : ParamType_fromTokens(tokens.val, allowIndexed))

\* An interchange object { name, type, indexed, components }: type is a
\* string; name, indexed and components are Null (absent) or Some(value)
JsonType(name, type, indexed, components) ==
    [name |-> name, type |-> type, indexed |-> indexed, components |-> components]

\* The name check of the object path: !name || name.match(regexIdentifier)
nameIsValid(name) ==
    IsNull(name) \/ name[1] = "" \/ regexIdentifier(name[1]) > 0

\* The indexed field of the object path
indexedField(indexed, allowIndexed) ==
    IF ~IsNull(indexed)
    THEN IF ~allowIndexed THEN Err("parameter cannot be indexed") ELSE Ok(indexed)
    ELSE Ok(Null)

\* name || ""
nameOrEmpty(name) == IF IsNull(name) THEN "" ELSE name[1]

\* type === "tuple" || type.substring(0, 5) === "tuple(" || type[0] === "("
isTupleType(type) ==
    type = "tuple" \/ Substring(type, 0, 5) = "tuple(" \/ CharAt(type, 0) = "("

\* ParamType.from(obj, allowIndexed) for an interchange object obj
RECURSIVE ParamType_fromObject(_, _)
ParamType_fromObject(obj, allowIndexed) ==
    IF ~nameIsValid(obj.name) THEN Err("invalid name") ELSE
    LET indexed == indexedField(obj.indexed, allowIndexed)
        arrayMatch == regexArrayType(obj.type)
    IN IF ~indexed.ok THEN indexed
       ELSE IF arrayMatch.matched
       THEN LET arrayLength == parseInt(IF arrayMatch.g2 # "" THEN arrayMatch.g2
                                        ELSE "-1")
                arrayChildren == ParamType_fromObject(
                    JsonType(Null, arrayMatch.g1, Null, obj.components), FALSE)
            IN IF ~arrayChildren.ok THEN arrayChildren
               ELSE ParamType(nameOrEmpty(obj.name), obj.type, "array",
                              indexed.val, Null, Some(arrayLength),
                              Some(arrayChildren.val))
       ELSE IF isTupleType(obj.type)
       THEN LET comps ==
                  IF ~IsNull(obj.components)
                  THEN collect([i \in 1..Len(obj.components[1]) |->
                         ParamType_fromObject(obj.components[1][i], FALSE)])
                  ELSE Ok(Null)
            IN IF ~comps.ok THEN comps
               ELSE ParamType(nameOrEmpty(obj.name), obj.type, "tuple",
                              indexed.val,
                              IF IsNull(obj.components) THEN Null
                              ELSE Some(comps.val),
                              Null, Null)
       ELSE LET type == verifyBasicType(obj.type)
            IN IF ~type.ok THEN type
               ELSE ParamType(nameOrEmpty(obj.name), type.val, type.val,
                              indexed.val, Null, Null, Null)

(***************************************************************************)
(* Fragments.  A JavaScript value that is a string, a boolean, a bigint,   *)
(* undefined, an array or an object is a record tagged by t.               *)
(***************************************************************************)
JStr(s) == [t |-> "string", s |-> s]

JBool(b) == [t |-> "boolean", b |-> b]

JBig(n) == [t |-> "bigint", n |-> n]

JUndef == [t |-> "undefined"]

JArr(items) == [t |-> "array", items |-> items]

\* props is the list of <<key, value>> in insertion order
JObj(props) == [t |-> "object", props |-> props]

\* getBigInt(text)
getBigInt(s) == JBig(ParseDigits(s, 0, 0))

\* ...a gas limit, returning a bigint or null if none
consumeGas(tokens) ==
    IF peekType(tokens, "AT").found
    THEN LET t1 == pop(tokens).ts
         IN IF peekType(t1, "NUMBER").found
            THEN LET p == pop(t1)
                 IN Ret(p.ts, Some(getBigInt(p.val.text)))
            ELSE Err("invalid gas")
    ELSE Ret(tokens, Null)

\* ...a parameter list, returning the ParamType list
consumeParams(tokens, allowIndexed) ==
    Try(popParams(tokens), LAMBDA params :
    Try(collect([i \in 1..Len(params.val) |->
                   ParamType_fromTokens(params.val[i], allowIndexed)]),
        LAMBDA list : Ret(params.ts, list.val)))

\* An interchange object of a fragment; every field but type is Null
\* (absent) or Some(value)
JsonFragment(type, name, anonymous, payable, constant, stateMutability, inputs, outputs, gas) ==
    [type |-> type, name |-> name, anonymous |-> anonymous,
     payable |-> payable, constant |-> constant,
     stateMutability |-> stateMutability, inputs |-> inputs,
     outputs |-> outputs, gas |-> gas]

\* list ? list.map(ParamType.from) : [ ]: Array.prototype.map calls its
\* callback with (element, index, array), so ParamType.from receives the
\* 0-based index as allowIndexed, which is truthy for every index but 0
mapParamTypeFrom(list) ==
    IF IsNull(list) THEN Ok(<<>>)
    ELSE collect([i \in 1..Len(list[1]) |->
                    ParamType_fromObject(list[1][i], (i - 1) # 0)])

\* list ? list.map((p) => ParamType.from(p, true)) : [ ]
mapParamTypeFromIndexed(list) ==
    IF IsNull(list) THEN Ok(<<>>)
    ELSE collect([i \in 1..Len(list[1]) |->
                    ParamType_fromObject(list[1][i], TRUE)])

\* The NamedFragment constructor's check of name, Null (undefined) or
\* Some(string)
namedFragmentCheck(name) == ~IsNull(name) /\ regexIdentifier(name[1]) > 0

ErrorFragment(name, inputs) ==
    IF ~namedFragmentCheck(name) THEN Err("invalid identifier")
    ELSE Ok([type |-> "error", name |-> name[1], inputs |-> inputs])

EventFragment(name, inputs, anonymous) ==
    IF ~namedFragmentCheck(name) THEN Err("invalid identifier")
    ELSE Ok([type |-> "event", name |-> name[1], inputs |-> inputs,
             anonymous |-> anonymous])

ConstructorFragment(inputs, payable, gas) ==
    Ok([type |-> "constructor", inputs |-> inputs, payable |-> payable,
        gas |-> gas])

FallbackFragment(inputs, payable) ==
    Ok([type |-> "fallback", inputs |-> inputs, payable |-> payable])

\* stateMutability is Null (undefined) or Some(string)
FunctionFragment(name, stateMutability, inputs, outputs, gas) ==
    IF ~namedFragmentCheck(name) THEN Err("invalid identifier")
    ELSE Ok([type |-> "function", name |-> name[1], inputs |-> inputs,
             outputs |-> outputs, stateMutability |-> stateMutability,
             constant |-> (stateMutability = Some("view")
                             \/ stateMutability = Some("pure")),
             payable |-> (stateMutability = Some("payable")),
             gas |-> gas])

StructFragment(name, inputs) ==
    IF ~namedFragmentCheck(name) THEN Err("invalid identifier")
    ELSE Ok([type |-> "struct", name |-> name[1], inputs |-> inputs])

ErrorFragment_fromTokens(obj) ==
    Try(consumeName("error", obj), LAMBDA name :
    Try(consumeParams(name.ts, FALSE), LAMBDA inputs :
    Try(consumeEoi(inputs.ts), LAMBDA eoi :
        ErrorFragment(Some(name.val), inputs.val))))

ErrorFragment_fromObject(obj) ==
    LET inputs == mapParamTypeFrom(obj.inputs)
    IN IF ~inputs.ok THEN inputs ELSE ErrorFragment(obj.name, inputs.val)

EventFragment_fromTokens(obj) ==
    Try(consumeName("event", obj), LAMBDA name :
    Try(consumeParams(name.ts, TRUE), LAMBDA inputs :
    Try(consumeKeywords(inputs.ts, setify(<<"anonymous">>)), LAMBDA kw :
    Try(consumeEoi(kw.ts), LAMBDA eoi :
        EventFragment(Some(name.val), inputs.val, "anonymous" \in kw.val)))))

EventFragment_fromObject(obj) ==
    LET inputs == mapParamTypeFromIndexed(obj.inputs)
    IN IF ~inputs.ok THEN inputs
       ELSE EventFragment(obj.name, inputs.val, obj.anonymous = Some(TRUE))

ConstructorFragment_fromTokens(obj) ==
    Try(consumeKeywords(obj, setify(<<"constructor">>)), LAMBDA kw :
    Try(consumeParams(kw.ts, FALSE), LAMBDA inputs :
    Try(consumeKeywords(inputs.ts, setify(<<"payable">>)), LAMBDA pay :
    Try(consumeGas(pay.ts), LAMBDA gas :
    Try(consumeEoi(gas.ts), LAMBDA eoi :
        ConstructorFragment(inputs.val, "payable" \in pay.val, gas.val))))))

ConstructorFragment_fromObject(obj) ==
    LET inputs == mapParamTypeFrom(obj.inputs)
    IN IF ~inputs.ok THEN inputs
       ELSE ConstructorFragment(inputs.val, obj.payable = Some(TRUE), obj.gas)

\* The test of a fallback's parameter list: exactly one parameter of type
\* bytes
oneBytes(params) == Len(params) = 1 /\ params[1].type = "bytes"

\* The receive branch of FallbackFragment.from
receiveFromTokens(inputs) ==
    IF Len(inputs.val) # 0 THEN Err("receive cannot have arguments")
    ELSE Try(consumeKeywords(inputs.ts, setify(<<"payable">>)), LAMBDA kw :
         Try(consumeEoi(kw.ts), LAMBDA eoi : FallbackFragment(<<>>, TRUE)))

\* The returns clause of a fallback or a function
consumeReturns(tokens) ==
    Try(consumeKeywords(tokens, setify(<<"returns">>)), LAMBDA ret :
        IF "returns" \in ret.val
        THEN Try(consumeParams(ret.ts, FALSE), LAMBDA outputs :
                 Ret(outputs.ts, [present |-> TRUE, list |-> outputs.val]))
        ELSE Ret(ret.ts, [present |-> FALSE, list |-> <<>>]))

\* The fallback branch of FallbackFragment.from
fallbackFromTokens(inputs) ==
    IF Len(inputs.val) # 0 /\ ~oneBytes(inputs.val)
    THEN Err("invalid fallback inputs")
    ELSE
    Try(consumeMutability(inputs.ts), LAMBDA mutability :
        IF mutability.val \notin {"nonpayable", "payable"}
        THEN Err("fallback cannot be constants")
        ELSE
        Try(consumeReturns(mutability.ts), LAMBDA outputs :
            IF outputs.val.present /\ ~oneBytes(outputs.val.list)
            THEN Err("invalid fallback outputs")
            ELSE
            Try(consumeEoi(outputs.ts), LAMBDA eoi :
                FallbackFragment(
                    IF Len(inputs.val) # 0 THEN inputs.val
                    ELSE <<ParamType_fromText("bytes", FALSE).val>>,
                    mutability.val = "payable"))))

FallbackFragment_fromTokens(obj) ==
    IF ~peekKeyword(obj, setify(<<"fallback", "receive">>)).found
    THEN Err("type must be fallback or receive")
    ELSE
    Try(popKeyword(obj, setify(<<"fallback", "receive">>)), LAMBDA type :
    Try(consumeParams(type.ts, FALSE), LAMBDA inputs :
        IF type.val = "receive" THEN receiveFromTokens(inputs)
        ELSE fallbackFromTokens(inputs)))

FallbackFragment_fromObject(obj) ==
    IF obj.type = "receive" THEN FallbackFragment(<<>>, TRUE)
    ELSE IF obj.type = "fallback"
    THEN FallbackFragment(<<ParamType_fromText("bytes", FALSE).val>>,
                          obj.stateMutability = Some("payable"))
    ELSE Err("invalid fallback description")

FunctionFragment_fromTokens(obj) ==
    Try(consumeName("function", obj), LAMBDA name :
    Try(consumeParams(name.ts, FALSE), LAMBDA inputs :
    Try(consumeMutability(inputs.ts), LAMBDA mutability :
    Try(consumeReturns(mutability.ts), LAMBDA outputs :
    Try(consumeGas(outputs.ts), LAMBDA gas :
    Try(consumeEoi(gas.ts), LAMBDA eoi :
        FunctionFragment(Some(name.val), Some(mutability.val), inputs.val,
                         outputs.val.list, gas.val)))))))

FunctionFragment_fromObject(obj) ==
    LET inputs == mapParamTypeFrom(obj.inputs)
    IN IF ~inputs.ok THEN inputs ELSE
    LET outputs == mapParamTypeFrom(obj.outputs)
    IN IF ~outputs.ok THEN outputs
       ELSE FunctionFragment(obj.name, obj.stateMutability, inputs.val,
                             outputs.val, obj.gas)

StructFragment_fromTokens(obj) ==
    Try(consumeName("struct", obj), LAMBDA name :
    Try(consumeParams(name.ts, FALSE), LAMBDA inputs :
    Try(consumeEoi(inputs.ts), LAMBDA eoi :
        StructFragment(Some(name.val), inputs.val))))

StructFragment_fromObject(obj) ==
    LET inputs == mapParamTypeFrom(obj.inputs)
    IN IF ~inputs.ok THEN inputs ELSE StructFragment(obj.name, inputs.val)

\* Fragment.from(obj) for a TokenString obj
Fragment_fromTokens(obj) ==
    LET type == peekKeyword(obj, KwTypes)
    IN CASE type.found /\ type.text = "constructor" -> ConstructorFragment_fromTokens(obj)
         [] type.found /\ type.text = "error" -> ErrorFragment_fromTokens(obj)
         [] type.found /\ type.text = "event" -> EventFragment_fromTokens(obj)
         [] type.found /\ type.text \in {"fallback", "receive"} ->
               FallbackFragment_fromTokens(obj)
         [] type.found /\ type.text = "function" -> FunctionFragment_fromTokens(obj)
         [] type.found /\ type.text = "struct" -> StructFragment_fromTokens(obj)
         [] OTHER -> Err("unsupported frgament object")

\* Fragment.from(obj) for an interchange object obj
Fragment_fromObject(obj) ==
    CASE obj.type = "constructor" -> ConstructorFragment_fromObject(obj)
      [] obj.type = "error" -> ErrorFragment_fromObject(obj)
      [] obj.type = "event" -> EventFragment_fromObject(obj)
      [] obj.type \in {"fallback", "receive"} -> FallbackFragment_fromObject(obj)
      [] obj.type = "function" -> FunctionFragment_fromObject(obj)
      [] obj.type = "struct" -> StructFragment_fromObject(obj)
      [] OTHER -> Err("UNSUPPORTED_OPERATION")

\* Fragment.from(obj) for a string obj.  The try block evaluates
\* Fragment.from(JSON.parse(obj)) and drops both its value (there is no
\* return) and its exception (the catch is empty); what the call returns is
\* always the result of the lexer path.
Fragment_fromText(text) ==
    Try(lex(text), LAMBDA tokens : Fragment_fromTokens(tokens.val))

\* ErrorFragment.from, EventFragment.from, ... for a string obj: each is
\* X.from(lex(obj))
fromTokensOf(type, tokens) ==
    CASE type = "constructor" -> ConstructorFragment_fromTokens(tokens)
      [] type = "error" -> ErrorFragment_fromTokens(tokens)
      [] type = "event" -> EventFragment_fromTokens(tokens)
      [] type = "fallback" -> FallbackFragment_fromTokens(tokens)
      [] type = "function" -> FunctionFragment_fromTokens(tokens)
      [] type = "struct" -> StructFragment_fromTokens(tokens)

Variant_fromText(type, text) ==
    Try(lex(text), LAMBDA tokens : fromTokensOf(type, tokens.val))

(***************************************************************************)
(* format("json").                                                         *)
(***************************************************************************)
\* JSON.stringify(v): a property whose value is undefined is left out, and a
\* bigint throws a TypeError.  The strings of this model need no escaping.
RECURSIVE stringify(_)
stringify(v) ==
    CASE v.t = "string" -> Ok("\"" \o v.s \o "\"")
      [] v.t = "boolean" -> Ok(IF v.b THEN "true" ELSE "false")
      [] v.t = "bigint" -> Err("TypeError")
      [] v.t = "array" ->
            LET items == collect([i \in 1..Len(v.items) |-> stringify(v.items[i])])
            IN IF ~items.ok THEN items
               ELSE Ok("[" \o join(items.val, ",") \o "]")
      [] v.t = "object" ->
            LET kept == SelectSeq(v.props, LAMBDA kv : kv[2].t # "undefined")
                vals == collect([i \in 1..Len(kept) |-> stringify(kept[i][2])])
            IN IF ~vals.ok THEN vals
               ELSE Ok("{" \o join([i \in 1..Len(kept) |->
                                      "\"" \o kept[i][1] \o "\":" \o vals.val[i]],
                                   ",") \o "}")

\* The object that ParamType.format("json") serializes.  A component is
\* JSON.parse(c.format("json")), which is the component's object without its
\* undefined properties; stringify leaves those out of the parent's text as
\* well, so the component's object stands for it here.
RECURSIVE ParamType_json(_)
ParamType_json(p) ==
    JObj(<< <<"type", JStr(IF p.baseType = "tuple" THEN "tuple" ELSE p.type)>>,
            <<"name", IF p.name # "" THEN JStr(p.name) ELSE JUndef>> >>
         \o (IF ~IsNull(p.indexed)
             THEN << <<"indexed", JBool(p.indexed[1])>> >> ELSE <<>>)
         \o (IF isTuple(p)
             THEN << <<"components",
                       JArr([i \in 1..Len(p.components[1]) |->
                               ParamType_json(p.components[1][i])])>> >>
             ELSE <<>>))

paramsJson(params) == JArr([i \in 1..Len(params) |-> ParamType_json(params[i])])

\* (gas != null) ? gas : undefined
gasJson(gas) == IF IsNull(gas) THEN JUndef ELSE gas[1]

\* The object that format("json") of a fragment serializes
Fragment_json(f) ==
    CASE f.type = "error" ->
            Ok(JObj(<< <<"type", JStr("error")>>, <<"name", JStr(f.name)>>,
                       <<"inputs", paramsJson(f.inputs)>> >>))
      [] f.type = "event" ->
            Ok(JObj(<< <<"type", JStr("event")>>,
                       <<"anonymous", JBool(f.anonymous)>>,
                       <<"name", JStr(f.name)>>,
                       <<"inputs", paramsJson(f.inputs)>> >>))
      [] f.type = "constructor" ->
            Ok(JObj(<< <<"type", JStr("constructor")>>,
                       <<"stateMutability",
                         JStr(IF f.payable THEN "payable" ELSE "undefined")>>,
                       <<"payable", JBool(f.payable)>>,
                       <<"gas", gasJson(f.gas)>>,
                       <<"inputs", paramsJson(f.inputs)>> >>))
      [] f.type = "fallback" ->
            Ok(JObj(<< <<"type", JStr(IF Len(f.inputs) = 0 THEN "receive"
                                      ELSE "fallback")>>,
                       <<"stateMutability",
                         JStr(IF f.payable THEN "payable" ELSE "nonpayable")>> >>))
      [] f.type = "function" ->
            Ok(JObj(<< <<"type", JStr("function")>>, <<"name", JStr(f.name)>>,
                       <<"constant", JBool(f.constant)>>,
                       <<"stateMutability",
                         IF f.stateMutability # Some("nonpayable")
                            /\ ~IsNull(f.stateMutability)
                         THEN JStr(f.stateMutability[1]) ELSE JUndef>>,
                       <<"payable", JBool(f.payable)>>,
                       <<"gas", gasJson(f.gas)>>,
                       <<"inputs", paramsJson(f.inputs)>>,
                       <<"outputs", paramsJson(f.outputs)>> >>))
      [] OTHER -> Err("@TODO")

\* fragment.format("json")
Fragment_formatJson(f) ==
    LET obj == Fragment_json(f)
    IN IF ~obj.ok THEN obj ELSE stringify(obj.val)

(***************************************************************************)
(* format("sighash" | "minimal" | "full") of a fragment, selector and      *)
(* topicHash.                                                              *)
(***************************************************************************)
\* joinParams with the names of the parameters in every format
joinParamsNamed(format, params) ==
    "(" \o join([i \in 1..Len(params) |-> ParamType_format(params[i], "full")],
                IF format = "full" THEN ", " ELSE ",") \o ")"

joinParams(format, params) ==
    "(" \o join([i \in 1..Len(params) |-> ParamType_format(params[i], format)],
                IF format = "full" THEN ", " ELSE ",") \o ")"

\* this.gas.toString() of a gas that is not null
gasText(gas) == IF gas[1].t = "bigint" THEN String(gas[1].n) ELSE gas[1].s

\* The words that FunctionFragment.format pushes after the signature; join
\* renders an undefined stateMutability as the empty string
functionWords(f, format) ==
    (IF f.stateMutability # Some("nonpayable")
     THEN <<IF IsNull(f.stateMutability) THEN "" ELSE f.stateMutability[1]>>
     ELSE <<>>)
    \o (IF Len(f.outputs) > 0 THEN <<"returns", joinParams(format, f.outputs)>>
        ELSE <<>>)
    \o (IF ~IsNull(f.gas) THEN <<"@" \o gasText(f.gas)>> ELSE <<>>)

\* fragment.format(format) for format sighash, minimal or full
Fragment_format(f, format) ==
    CASE f.type = "error" ->
            Ok(join((IF format # "sighash" THEN <<"error">> ELSE <<>>)
                    \o <<f.name \o joinParams(format, f.inputs)>>, " "))
      [] f.type = "event" ->
            Ok(join((IF format # "sighash" THEN <<"event">> ELSE <<>>)
                    \o <<f.name \o joinParams(format, f.inputs)>>
                    \o (IF format # "sighash" /\ f.anonymous THEN <<"anonymous">>
                        ELSE <<>>), " "))
      [] f.type = "constructor" ->
            IF format = "sighash" THEN Err("UNSUPPORTED_OPERATION")
            ELSE Ok(join(<<"constructor" \o joinParams(format, f.inputs),
                           IF f.payable THEN "payable" ELSE "nonpayable">>
                         \o (IF ~IsNull(f.gas) THEN <<"@" \o gasText(f.gas)>>
                             ELSE <<>>), " "))
      [] f.type = "fallback" ->
            Ok((IF Len(f.inputs) = 0 THEN "receive" ELSE "fallback") \o "()"
               \o (IF f.payable THEN " payable" ELSE ""))
      [] f.type = "function" ->
            Ok(join((IF format # "sighash" THEN <<"function">> ELSE <<>>)
                    \o <<f.name \o joinParams(format, f.inputs)>>
                    \o (IF format # "sighash" THEN functionWords(f, format)
                        ELSE <<>>), " "))
      [] OTHER -> Err("@TODO")

\* The position of a character among the characters of a signature
CharCode(c) ==
    LET chars == LetterChars \o DigitChars \o "$_(),[] "
    IN CHOOSE i \in 0..(Len(chars) - 1) : CharAt(chars, i) = c

RECURSIVE Digest(_, _, _)
Digest(s, i, h) ==
    IF i >= Len(s) THEN h
    ELSE Digest(s, i + 1, (h * 31 + CharCode(CharAt(s, i)) + 1) % 65521)

RECURSIVE HexOf(_, _, _)
HexOf(h, j, n) ==
    IF j >= n THEN ""
    ELSE CharAt("0123456789abcdef", ((h * (j + 3)) \div ((j % 5) + 1)) % 16) \o HexOf(h, j + 1, n)

\* id(text): the digest of the text, "0x" and 64 hexadecimal characters; a
\* deterministic function of the text
id(text) == "0x" \o HexOf(Digest(text, 0, 7), 0, 64)

\* fragment.selector of an ErrorFragment or a FunctionFragment
selector(f) ==
    Try(Fragment_format(f, "sighash"), LAMBDA s : Ok(Substring(id(s.val), 0, 10)))

\* fragment.topicHash of an EventFragment
topicHash(f) ==
    Try(Fragment_format(f, "sighash"), LAMBDA s : Ok(id(s.val)))

(***************************************************************************)
(* walk and walkAsync.  A value is a number, null, an Array or a plain     *)
(* object; the caller's process(type, value) computes Leaf(type, value).   *)
(***************************************************************************)
Num(n) == [k |-> "num", v |-> n]

Nul == [k |-> "null"]

Arr(items) == [k |-> "arr", items |-> items]

\* A plain object: its own properties as a sequence of [key, val]
Obj(entries) == [k |-> "obj", entries |-> entries]

Leaf(type, value) == [k |-> "leaf", type |-> type, value |-> value]

\* The length test of an array type made without regard to its arrayLength
wrongLengthNever(p, n) == FALSE

\* this.arrayLength !== -1 && value.length !== this.arrayLength
wrongLength(p, n) == p.arrayLength[1] # -1 /\ n # p.arrayLength[1]

RECURSIVE walk(_, _)
RECURSIVE walkEach(_, _, _, _)
\* value.map((v, i) => types[i].walk(v, process))
walkEach(types, items, i, acc) ==
    IF i > Len(items) THEN Ok(Arr(acc))
    ELSE Try(walk(types[i], items[i]), LAMBDA r :
             walkEach(types, items, i + 1, Append(acc, r.val)))

\* p.walk(value, process), process returning its result at once
walk(p, value) ==
    IF isArray(p)
    THEN IF value.k # "arr" THEN Err("invlaid array value")
         ELSE IF wrongLength(p, Len(value.items)) THEN Err("array is wrong length")
         ELSE walkEach([i \in 1..Len(value.items) |-> p.arrayChildren[1]],
                       value.items, 1, <<>>)
    ELSE IF isTuple(p)
    THEN IF value.k # "arr" THEN Err("invlaid tuple value")
         ELSE IF Len(value.items) # Len(p.components[1])
         THEN Err("array is wrong length")
         ELSE walkEach(p.components[1], value.items, 1, <<>>)
    ELSE Ok(Leaf(p.type, value))

(***************************************************************************)
(* walkAsync writes into Arrays it has made, so Arrays and objects live in *)
(* a heap: heap[a] is the Array or object at address a, and an entry of an *)
(* Array is a number, null, a leaf's result or Ref(a).  The walk's state   *)
(* is the heap, the promises pushed so far, the calls of process made so   *)
(* far and the address of the Array made last.                             *)
(***************************************************************************)
Ref(a) == [k |-> "ref", a |-> a]

\* Array.isArray(value)
isArrayValue(st, value) == value.k = "ref" /\ st.heap[value.a].k = "arr"

\* throw new Error(e) inside the walk
Throw(st, e) == [st EXCEPT !.ok = FALSE, !.err = e]

\* setValue writing the first entry whatever the index
setValueFirst(st, set, value) ==
    [st EXCEPT !.heap[set.a].items[1] = value]

\* The setValue closures: result[index] = value, and result[0] = value
setValue(st, set, value) ==
    [st EXCEPT !.heap[set.a].items[set.i] = value]

\* result = value, the caller's Array itself
arraySliceShared(st, value) == [st EXCEPT !.at = value.a]

\* const result = value.slice()
arraySlice(st, value) ==
    [st EXCEPT !.heap = Append(@, @[value.a]), !.at = Len(st.heap) + 1]

\* The own property of the object with the given key, if any
RECURSIVE property(_, _, _)
property(entries, key, i) ==
    IF i > Len(entries) THEN Null
    ELSE IF entries[i].key = key THEN Some(entries[i].val)
    ELSE property(entries, key, i + 1)

\* result = components.map((param) => ... value[param.name])
RECURSIVE fromNames(_, _, _, _, _)
fromNames(st, components, entries, i, acc) ==
    IF i > Len(components)
    THEN [st EXCEPT !.heap = Append(@, Arr(acc)), !.at = Len(st.heap) + 1]
    ELSE IF components[i].name = ""
    THEN Throw(st, "cannot use object value with unnamed components")
    ELSE IF IsNull(property(entries, components[i].name, 1))
    THEN Throw(st, "missing value for component")
    ELSE fromNames(st, components, entries, i + 1,
                   Append(acc, property(entries, components[i].name, 1)[1]))

\* Convert the object into an array
tupleArray(st, components, value) ==
    IF isArrayValue(st, value) THEN arraySlice(st, value)
    ELSE IF value.k # "ref" THEN Throw(st, "invlaid tuple value")
    ELSE fromNames(st, components, st.heap[value.a].entries, 1, <<>>)

\* The kind of result the i-th call of process gives: "now" a value,
\* "later" a promise that resolves, "fail" a promise that rejects and
\* "undefined" no value
resultKind(process, i) == process[((i - 1) % Len(process)) + 1]

\* const result = process(this.type, value); if (result.then) ... else ...
leafAsync(p, value, process, st, set, kind) ==
    IF kind = "undefined"
    THEN Throw([st EXCEPT !.calls = Append(@, Leaf(p.type, value))], "TypeError")
    ELSE IF kind = "now"
    THEN setValue([st EXCEPT !.calls = Append(@, Leaf(p.type, value))],
                  set, Leaf(p.type, value))
    ELSE [st EXCEPT !.calls = Append(@, Leaf(p.type, value)),
                    !.promises = Append(@, [set |-> set, kind |-> kind,
                                            state |-> "pending",
                                            result |-> Leaf(p.type, value)])]

RECURSIVE walkAsync_(_, _, _, _, _)
RECURSIVE forEachAsync(_, _, _, _, _)
\* result.forEach((value, index) => types[index].#walkAsync(promises, value,
\* process, (value) => { result[index] = value; }))
forEachAsync(types, result, i, process, st) ==
    IF i > Len(types) THEN st
    ELSE Try(walkAsync_(types[i], st.heap[result].items[i], process, st,
                        [a |-> result, i |-> i]), LAMBDA s :
             forEachAsync(types, result, i + 1, process, s))

\* The forEach and setValue(result), result being the Array made last
walkResult(types, process, st, set) ==
    Try(forEachAsync(types, st.at, 1, process, st), LAMBDA s :
        setValue(s, set, Ref(st.at)))

\* #walkAsync(promises, value, process, setValue)
walkAsync_(p, value, process, st, set) ==
    IF isArray(p)
    THEN IF ~isArrayValue(st, value) THEN Throw(st, "invlaid array value")
         ELSE IF wrongLength(p, Len(st.heap[value.a].items))
         THEN Throw(st, "array is wrong length")
         ELSE walkResult([i \in 1..Len(st.heap[value.a].items) |-> p.arrayChildren[1]],
                         process, arraySlice(st, value), set)
    ELSE IF isTuple(p)
    THEN Try(tupleArray(st, p.components[1], value), LAMBDA s :
             IF Len(s.heap[s.at].items) # Len(p.components[1])
             THEN Throw(s, "array is wrong length")
             ELSE walkResult(p.components[1], process, s, set))
    ELSE leafAsync(p, value, process, st, set, resultKind(process, Len(st.calls) + 1))

(***************************************************************************)
(* The callers' arguments.  A parameter is described by its parts, and the *)
(* text and the interchange object handed to the factories are put         *)
(* together from the parts.                                                *)
(***************************************************************************)
\* The largest width N of bytesN, intN and uintN that is tried
MaxWidth == 258

\* The largest fixed array length that is tried
MaxArrayLen == 3

\* The most array suffixes on one type
MaxSuffixes == 2

\* The most parameters in a fragment's parameter list
MaxParams == 2

\* The most keywords after a function's parameter list
MaxKeywords == 2

\* An elementary base type, and a tuple base type (written with the tuple
\* keyword or without) of the given members
Elem(text) == [tuple |-> FALSE, text |-> text, keyword |-> FALSE, members |-> <<>>]

Tuple(keyword, members) ==
    [tuple |-> TRUE, text |-> "", keyword |-> keyword, members |-> members]

\* A parameter: its base type, its array suffixes (-1 for "[]"), whether it
\* carries indexed ("none", "true", or "false", which only an interchange
\* object can say) and its name ("" for none)
Param(base, suffixes, indexed, name) ==
    [base |-> base, suffixes |-> suffixes, indexed |-> indexed, name |-> name]

SuffixText(n) == "[" \o (IF n < 0 THEN "" ELSE String(n)) \o "]"

SuffixesText(suffixes) == join([i \in 1..Len(suffixes) |-> SuffixText(suffixes[i])], "")

\* The human-readable text of a parameter
RECURSIVE ParamText(_)
ParamText(d) ==
    (IF d.base.tuple
     THEN (IF d.base.keyword THEN "tuple" ELSE "") \o "("
            \o join([i \in 1..Len(d.base.members) |-> ParamText(d.base.members[i])],
                    ", ")
            \o ")"
     ELSE d.base.text)
    \o SuffixesText(d.suffixes)
    \o (IF d.indexed = "true" THEN " indexed" ELSE "")
    \o (IF d.name # "" THEN " " \o d.name ELSE "")

\* The interchange object of a parameter
RECURSIVE ParamObject(_)
ParamObject(d) ==
    JsonType(IF d.name = "" THEN Null ELSE Some(d.name),
             (IF d.base.tuple THEN "tuple" ELSE d.base.text)
                \o SuffixesText(d.suffixes),
             IF d.indexed = "none" THEN Null ELSE Some(d.indexed = "true"),
             IF d.base.tuple
             THEN Some([i \in 1..Len(d.base.members) |->
                          ParamObject(d.base.members[i])])
             ELSE Null)

\* All sequences over S of length at most n
RECURSIVE SeqsUpTo(_, _)
SeqsUpTo(S, n) ==
    IF n = 0 THEN {<<>>}
    ELSE LET shorter == SeqsUpTo(S, n - 1)
         IN shorter \cup { Append(q, x) : q \in shorter, x \in S }

ElementaryNames == {"address", "bool", "bytes", "string", "uint", "int"}

\* The names that take a width
WidthNames == {"bytes", "uint", "int"}

ElementarySource(n, hasWidth, w, z, t, f) ==
    [family |-> "elementary", name |-> n, hasWidth |-> hasWidth, width |-> w,
     zero |-> z, tail |-> t, allowIndexed |-> FALSE, form |-> f,
     desc |-> Param(Elem(n \o (IF hasWidth
                               THEN (IF z THEN "0" ELSE "") \o String(w)
                               ELSE "") \o t),
                    <<>>, "none", "")]

\* Elementary type strings: a name, then nothing or a width (also written
\* with a leading zero), then nothing or characters that belong to no type
ElementarySources ==
    { ElementarySource(n, FALSE, 0, FALSE, t, f) :
         n \in ElementaryNames, t \in {"", "x", "ean"}, f \in {"text", "object"} }
    \cup
    { ElementarySource(n, TRUE, w, FALSE, "", f) :
         n \in WidthNames, w \in 0..MaxWidth, f \in {"text", "object"} }
    \cup
    { ElementarySource(n, TRUE, w, z, t, f) :
         n \in ElementaryNames, w \in {0, 1, 8, 32, 33}, z \in BOOLEAN,
         t \in {"", "x"}, f \in {"text", "object"} }

ParamBases ==
    { Elem("uint8"), Elem("uint"),
      Tuple(FALSE, <<Param(Elem("uint8"), <<>>, "none", ""),
                     Param(Elem("bool"), <<>>, "none", "")>>),
      Tuple(TRUE, <<Param(Elem("uint"), <<>>, "none", "a"),
                    Param(Elem("address"), <<-1>>, "none", "b")>>),
      Tuple(FALSE, <<Param(Elem("uint8"), <<>>, "true", "a")>>),
      Tuple(TRUE, <<Param(Elem("bool"), <<>>, "none", ""),
                    Param(Elem("uint8"), <<>>, "false", "")>>) }

SuffixValues == {-1, 0, MaxArrayLen}

\* Parameters with array suffixes, with and without indexed and a name
ParamSources ==
    { [family |-> "param", allowIndexed |-> a, form |-> f,
       desc |-> Param(b, q, i, n)] :
         b \in ParamBases, q \in SeqsUpTo(SuffixValues, MaxSuffixes),
         i \in {"none", "true"}, n \in {"", "a"}, a \in BOOLEAN,
         f \in {"text", "object"} }
    \cup
    { [family |-> "param", allowIndexed |-> a, form |-> "object",
       desc |-> Param(b, q, "false", n)] :
         b \in ParamBases, q \in SeqsUpTo(SuffixValues, MaxSuffixes),
         n \in {"", "a"}, a \in BOOLEAN }

(***************************************************************************)
(* ParamType.from on a text and on an interchange object.                  *)
(***************************************************************************)
Init ==
    /\ pc = "call"
    /\ src \in ElementarySources \cup ParamSources
    /\ out = Null
    /\ json = Null
    /\ back = Null

ParamTypeFromText ==
    /\ pc = "call"
    /\ src.form = "text"
    /\ out' = ParamType_fromText(ParamText(src.desc), src.allowIndexed)
    /\ pc' = "done"
    /\ UNCHANGED <<src, json, back>>

ParamTypeFromObject ==
    /\ pc = "call"
    /\ src.form = "object"
    /\ out' = ParamType_fromObject(ParamObject(src.desc), src.allowIndexed)
    /\ pc' = "done"
    /\ UNCHANGED <<src, json, back>>

Next == ParamTypeFromText \/ ParamTypeFromObject

Spec == Init /\ [][Next]_vars

(***************************************************************************)
(* The Fragment factories, format("json") and the way back.                *)
(***************************************************************************)
\* A fragment by its parts: its type, whether the text starts with the type
\* keyword, its name, its inputs and outputs, the mutability keyword ("" for
\* none), the word after an event's parameter list ("" for none), whether
\* it is payable and whether it has a gas limit
Frag(type, keyword, name, inputs, outputs, mutability, trail, payable, gas) ==
    [type |-> type, keyword |-> keyword, name |-> name, inputs |-> inputs,
     outputs |-> outputs, mutability |-> mutability, trail |-> trail,
     payable |-> payable, gas |-> gas]

ParamsText(params) ==
    "(" \o join([i \in 1..Len(params) |-> ParamText(params[i])], ", ") \o ")"

GasText == "5"

\* The human-readable text of a fragment
FragmentText(d) ==
    (IF d.keyword THEN d.type \o (IF d.type = "constructor" THEN "" ELSE " ")
     ELSE "")
    \o d.name \o ParamsText(d.inputs)
    \o (IF d.type = "constructor" /\ d.payable THEN " payable" ELSE "")
    \o (IF d.mutability # "" THEN " " \o d.mutability ELSE "")
    \o (IF Len(d.outputs) > 0 THEN " returns " \o ParamsText(d.outputs) ELSE "")
    \o (IF d.trail # "" THEN " " \o d.trail ELSE "")
    \o (IF d.gas THEN " @" \o GasText ELSE "")

ParamObjects(params) == [i \in 1..Len(params) |-> ParamObject(params[i])]

\* The interchange object of a fragment
FragmentObject(d) ==
    JsonFragment(d.type,
        IF d.type = "constructor" THEN Null ELSE Some(d.name),
        IF d.type = "event" THEN Some(d.trail = "anonymous") ELSE Null,
        IF d.type = "constructor" THEN Some(d.payable)
        ELSE IF d.type = "function" THEN Some(d.mutability = "payable")
        ELSE Null,
        IF d.type = "function" THEN Some(d.mutability \in {"view", "pure"})
        ELSE Null,
        IF d.type = "function" /\ d.mutability # "" THEN Some(d.mutability)
        ELSE IF d.type = "constructor"
        THEN Some(IF d.payable THEN "payable" ELSE "nonpayable")
        ELSE Null,
        Some(ParamObjects(d.inputs)),
        IF d.type = "function" THEN Some(ParamObjects(d.outputs)) ELSE Null,
        IF d.gas THEN Some(JStr(GasText)) ELSE Null)

\* The properties of an interchange object that are present
Present(key, field, value) == IF IsNull(field) THEN <<>> ELSE << <<key, value>> >>

RECURSIVE JsonTypeValue(_)
JsonTypeValue(o) ==
    JObj(<< <<"type", JStr(o.type)>> >>
         \o Present("name", o.name, IF IsNull(o.name) THEN JUndef ELSE JStr(o.name[1]))
         \o Present("indexed", o.indexed,
                    IF IsNull(o.indexed) THEN JUndef ELSE JBool(o.indexed[1]))
         \o Present("components", o.components,
                    IF IsNull(o.components) THEN JUndef
                    ELSE JArr([i \in 1..Len(o.components[1]) |->
                                 JsonTypeValue(o.components[1][i])])))

JsonTypeValues(list) ==
    IF IsNull(list) THEN JUndef
    ELSE JArr([i \in 1..Len(list[1]) |-> JsonTypeValue(list[1][i])])

OptBool(field) == IF IsNull(field) THEN JUndef ELSE JBool(field[1])

OptStr(field) == IF IsNull(field) THEN JUndef ELSE JStr(field[1])

\* JSON.stringify of the interchange object o
JsonFragmentText(o) ==
    stringify(JObj(<< <<"type", JStr(o.type)>> >>
        \o Present("name", o.name, OptStr(o.name))
        \o Present("anonymous", o.anonymous, OptBool(o.anonymous))
        \o Present("payable", o.payable, OptBool(o.payable))
        \o Present("constant", o.constant, OptBool(o.constant))
        \o Present("stateMutability", o.stateMutability, OptStr(o.stateMutability))
        \o Present("inputs", o.inputs, JsonTypeValues(o.inputs))
        \o Present("outputs", o.outputs, JsonTypeValues(o.outputs))
        \o Present("gas", o.gas, IF IsNull(o.gas) THEN JUndef ELSE o.gas[1])))

FragmentParams ==
    { Param(Elem("uint256"), <<>>, "none", ""),
      Param(Elem("address"), <<>>, "none", "to"),
      Param(Elem("uint8"), <<>>, "true", "a"),
      Param(Tuple(FALSE, <<Param(Elem("bool"), <<>>, "none", ""),
                           Param(Elem("uint8"), <<>>, "none", "n")>>),
            <<-1>>, "none", "x") }

OutputParams ==
    { Param(Elem("uint256"), <<>>, "none", ""),
      Param(Elem("bool"), <<>>, "true", "") }

FragmentDescs ==
    { Frag(t, k, "E", i, <<>>, "", "", FALSE, FALSE) :
        t \in {"error", "struct"}, k \in BOOLEAN,
        i \in SeqsUpTo(FragmentParams, MaxParams) }
    \cup
    { Frag("event", k, "E", i, <<>>, "", a, FALSE, FALSE) :
        k \in BOOLEAN, i \in SeqsUpTo(FragmentParams, MaxParams),
        a \in {"", "anonymous"} }
    \cup
    { Frag("constructor", k, "", i, <<>>, "", "", p, g) :
        k \in BOOLEAN, i \in SeqsUpTo(FragmentParams, MaxParams),
        p \in BOOLEAN, g \in BOOLEAN }
    \cup
    { Frag("function", k, "f", i, o, m, "", FALSE, g) :
        k \in BOOLEAN, i \in SeqsUpTo(FragmentParams, MaxParams),
        o \in SeqsUpTo(OutputParams, 1),
        m \in {"", "view", "payable", "nonpayable"}, g \in BOOLEAN }

\* An event's text followed by a word that is no part of the grammar
EventTrailDescs ==
    { Frag("event", k, "E", i, <<>>, "", "foo", FALSE, FALSE) :
        k \in BOOLEAN, i \in SeqsUpTo(FragmentParams, MaxParams) }

\* form "json" is the JSON text of the interchange object
FragmentSources ==
    { [family |-> "fragment", form |-> f, desc |-> d] :
        d \in FragmentDescs, f \in {"text", "object", "json"} }
    \cup
    { [family |-> "fragment", form |-> "text", desc |-> d] : d \in EventTrailDescs }

InitFragment ==
    /\ pc = "call"
    /\ src \in FragmentSources
    /\ out = Null
    /\ json = Null
    /\ back = Null

\* Fragment.from(text) for a text that starts with its type keyword
FragmentFromText ==
    /\ pc = "call"
    /\ src.form = "text"
    /\ src.desc.keyword
    /\ out' = Fragment_fromText(FragmentText(src.desc))
    /\ pc' = "done"
    /\ UNCHANGED <<src, json, back>>

\* ErrorFragment.from(text), EventFragment.from(text), ... for a text
\* without the type keyword
VariantFromText ==
    /\ pc = "call"
    /\ src.form = "text"
    /\ ~src.desc.keyword
    /\ out' = Variant_fromText(src.desc.type, FragmentText(src.desc))
    /\ pc' = "done"
    /\ UNCHANGED <<src, json, back>>

FragmentFromObject ==
    /\ pc = "call"
    /\ src.form = "object"
    /\ out' = Fragment_fromObject(FragmentObject(src.desc))
    /\ pc' = "done"
    /\ UNCHANGED <<src, json, back>>

\* Fragment.from(JSON.stringify(object))
FragmentFromJsonText ==
    /\ pc = "call"
    /\ src.form = "json"
    /\ out' = Fragment_fromText(JsonFragmentText(FragmentObject(src.desc)).val)
    /\ pc' = "done"
    /\ UNCHANGED <<src, json, back>>

\* fragment.format("json") of the fragment that a factory returned
FormatJson ==
    /\ pc = "done"
    /\ src.form \in {"text", "object"}
    /\ out.ok
    /\ json' = Fragment_formatJson(out.val)
    /\ pc' = "formatted"
    /\ UNCHANGED <<src, out, back>>

\* Fragment.from(fragment.format("json")); a throw of format is the throw
\* of the whole expression
Reparse ==
    /\ pc = "formatted"
    /\ back' = IF json.ok THEN Fragment_fromText(json.val) ELSE json
    /\ pc' = "reparsed"
    /\ UNCHANGED <<src, out, json>>

NextFragment ==
    \/ FragmentFromText
    \/ VariantFromText
    \/ FragmentFromObject
    \/ FragmentFromJsonText
    \/ FormatJson
    \/ Reparse

SpecFragment == InitFragment /\ [][NextFragment]_vars

(***************************************************************************)
(* The mutability resolver on sequences of keywords.                       *)
(***************************************************************************)
MutabilityKeywords == KwVisib \cup {"nonpayable"}

MutabilitySources ==
    { [family |-> "mutability", entry |-> e, keywords |-> k] :
        e \in {"consumeMutability", "function"},
        k \in SeqsUpTo(MutabilityKeywords, MaxKeywords) }

KeywordsText(keywords) == join(keywords, " ")

InitMutability ==
    /\ pc = "call"
    /\ src \in MutabilitySources
    /\ out = Null
    /\ json = Null
    /\ back = Null

\* consumeMutability(lex(keywords))
ConsumeMutability ==
    /\ pc = "call"
    /\ src.entry = "consumeMutability"
    /\ out' = LET tokens == lex(KeywordsText(src.keywords))
              IN IF tokens.ok THEN consumeMutability(tokens.val) ELSE tokens
    /\ pc' = "done"
    /\ UNCHANGED <<src, json, back>>

\* FunctionFragment.from("function f() <keywords>")
FunctionFromKeywords ==
    /\ pc = "call"
    /\ src.entry = "function"
    /\ out' = Variant_fromText("function",
                 "function f()" \o (IF Len(src.keywords) = 0 THEN ""
                                    ELSE " " \o KeywordsText(src.keywords)))
    /\ pc' = "done"
    /\ UNCHANGED <<src, json, back>>

NextMutability == ConsumeMutability \/ FunctionFromKeywords

SpecMutability == InitMutability /\ [][NextMutability]_vars

(***************************************************************************)
(* The tokenizer and the factories on texts of parentheses, commas, types  *)
(* and names.                                                              *)
(***************************************************************************)
\* The longest text, in pieces
MaxPieces == 4

Pieces == {"(", ")", ",", "uint8", "a"}

PiecesText(pieces) == join(pieces, " ")

\* entry lex: lex(text); entry ParamType: ParamType.from(text); entry
\* Fragment: Fragment.from("function foo" + text)
PieceSources ==
    { [family |-> "pieces", entry |-> e, pieces |-> p] :
        e \in {"lex", "ParamType", "Fragment"}, p \in SeqsUpTo(Pieces, MaxPieces) }

InitPieces ==
    /\ pc = "call"
    /\ src \in PieceSources
    /\ out = Null
    /\ json = Null
    /\ back = Null

\* lex(text)
LexPieces ==
    /\ pc = "call"
    /\ src.entry = "lex"
    /\ out' = lex(PiecesText(src.pieces))
    /\ pc' = "done"
    /\ UNCHANGED <<src, json, back>>

\* ParamType.from(text)
ParamTypeFromPieces ==
    /\ pc = "call"
    /\ src.entry = "ParamType"
    /\ out' = ParamType_fromText(PiecesText(src.pieces), FALSE)
    /\ pc' = "done"
    /\ UNCHANGED <<src, json, back>>

\* Fragment.from("function foo" + text)
FragmentFromPieces ==
    /\ pc = "call"
    /\ src.entry = "Fragment"
    /\ out' = Fragment_fromText("function foo" \o PiecesText(src.pieces))
    /\ pc' = "done"
    /\ UNCHANGED <<src, json, back>>

NextPieces == LexPieces \/ ParamTypeFromPieces \/ FragmentFromPieces

SpecPieces == InitPieces /\ [][NextPieces]_vars

(***************************************************************************)
(* ParamType.format of the ParamType that ParamType.from returned.         *)
(***************************************************************************)
InitFormat ==
    /\ pc = "call"
    /\ src \in ParamSources
    /\ out = Null
    /\ json = Null
    /\ back = Null

\* p.format("sighash"), p.format("minimal") and p.format("full")
FormatParamType ==
    /\ pc = "done"
    /\ out.ok
    /\ json' = [sighash |-> ParamType_format(out.val, "sighash"),
                minimal |-> ParamType_format(out.val, "minimal"),
                full |-> ParamType_format(out.val, "full")]
    /\ pc' = "formatted"
    /\ UNCHANGED <<src, out, back>>

NextFormat == ParamTypeFromText \/ ParamTypeFromObject \/ FormatParamType

SpecFormat == InitFormat /\ [][NextFormat]_vars

(***************************************************************************)
(* selector and topicHash of the fragment that a factory returned.         *)
(***************************************************************************)
InitSelector ==
    /\ pc = "call"
    /\ src \in { s \in FragmentSources : s.form \in {"text", "object"} }
    /\ out = Null
    /\ json = Null
    /\ back = Null

\* fragment.selector
Selector ==
    /\ pc = "done"
    /\ out.ok
    /\ out.val.type \in {"error", "function"}
    /\ json' = selector(out.val)
    /\ pc' = "hashed"
    /\ UNCHANGED <<src, out, back>>

\* fragment.topicHash
TopicHash ==
    /\ pc = "done"
    /\ out.ok
    /\ out.val.type = "event"
    /\ json' = topicHash(out.val)
    /\ pc' = "hashed"
    /\ UNCHANGED <<src, out, back>>

NextSelector ==
    \/ FragmentFromText
    \/ VariantFromText
    \/ FragmentFromObject
    \/ Selector
    \/ TopicHash

SpecSelector == InitSelector /\ [][NextSelector]_vars

(***************************************************************************)
(* Walking: a ParamType made from text walks a value.  walk returns at     *)
(* once; walkAsync runs its descent, then its pending leaves settle in any *)
(* order, and it resumes after Promise.all.                                *)
(***************************************************************************)
\* The longest Array of numbers that is tried
MaxElems == 3

\* The longest Array of Arrays and objects that is tried
MaxNested == 2

\* The calls of process after which its kinds of result repeat
MaxCalls == 2

WalkTypes ==
    {"uint8", "uint8[2]", "uint8[]", "uint8[][2]", "tuple(uint8 a, bool b)",
     "tuple(uint8, bool b)", "tuple(uint8 a, bool b, address c)",
     "tuple(uint8 a, bool b)[]", "tuple(uint8 a, uint8[2] b)"}

Leaves == {Num(1), Num(2)}

Flat == { Arr(s) : s \in SeqsUpTo(Leaves, MaxElems) }

\* The objects with some of the keys a, b and c, in this order
Keyed ==
    { Obj(SelectSeq(<<[key |-> "a", val |-> f[1]], [key |-> "b", val |-> f[2]],
                      [key |-> "c", val |-> f[3]]>>, LAMBDA e : e.val # Nul)) :
      f \in [1..3 -> Leaves \cup {Nul}] }

Inner ==
    {Num(1), Arr(<<Num(1), Num(2)>>), Arr(<<Num(2)>>),
     Obj(<<[key |-> "a", val |-> Num(1)], [key |-> "b", val |-> Num(2)]>>)}

Nested ==
    { Arr(s) : s \in SeqsUpTo(Inner, MaxNested) }
    \cup { Obj(<<[key |-> "a", val |-> x], [key |-> "b", val |-> y]>>) :
           x \in Leaves, y \in Inner }

Values == Leaves \cup {Nul} \cup Flat \cup Keyed \cup Nested

ResultKinds == {"now", "later", "fail", "undefined"}

WalkSources ==
    { [text |-> t, type |-> ParamType_fromText(t, FALSE).val, value |-> v,
       process |-> m] :
      t \in WalkTypes, v \in Values, m \in [1..MaxCalls -> ResultKinds] }

\* The caller's value placed in the heap: the heap after it, and the entry
\* that stands for the value
RECURSIVE Store(_, _)
RECURSIVE StoreAll(_, _, _, _)
StoreAll(values, i, heap, cells) ==
    IF i > Len(values) THEN [heap |-> heap, cells |-> cells]
    ELSE StoreAll(values, i + 1, Store(values[i], heap).heap,
                  Append(cells, Store(values[i], heap).cell))

StoreArr(r) ==
    [heap |-> Append(r.heap, Arr(r.cells)), cell |-> Ref(Len(r.heap) + 1)]

StoreObj(entries, r) ==
    [heap |-> Append(r.heap, Obj([i \in 1..Len(entries) |->
                                   [key |-> entries[i].key, val |-> r.cells[i]]])),
     cell |-> Ref(Len(r.heap) + 1)]

Store(value, heap) ==
    IF value.k = "arr" THEN StoreArr(StoreAll(value.items, 1, heap, <<>>))
    ELSE IF value.k = "obj"
    THEN StoreObj(value.entries,
                  StoreAll([i \in 1..Len(value.entries) |-> value.entries[i].val],
                           1, heap, <<>>))
    ELSE [heap |-> heap, cell |-> value]

\* The value an entry stands for
RECURSIVE Tree(_, _)
Tree(heap, cell) ==
    IF cell.k = "leaf" THEN Leaf(cell.type, Tree(heap, cell.value))
    ELSE IF cell.k # "ref" THEN cell
    ELSE IF heap[cell.a].k = "arr"
    THEN Arr([i \in 1..Len(heap[cell.a].items) |-> Tree(heap, heap[cell.a].items[i])])
    ELSE Obj([i \in 1..Len(heap[cell.a].entries) |->
               [key |-> heap[cell.a].entries[i].key,
                val |-> Tree(heap, heap[cell.a].entries[i].val)]])

\* const promises = [ ]; const result = [ value ];
walkAsyncStart(stored) ==
    [ok |-> TRUE, err |-> "", heap |-> Append(stored.heap, Arr(<<stored.cell>>)),
     promises |-> <<>>, calls |-> <<>>, at |-> 0, value |-> stored.cell,
     result |-> Len(stored.heap) + 1]

\* this.#walkAsync(promises, value, process, (value) => { result[0] = value; })
walkAsyncDescent(p, process, st) ==
    walkAsync_(p, st.value, process, st, [a |-> st.result, i |-> 1])

\* return result[0]
walkAsyncReturn(st) == Ok(Tree(st.heap, st.heap[st.result].items[1]))

InitWalk ==
    /\ pc = "start"
    /\ src \in WalkSources
    /\ out = Null
    /\ json = Null
    /\ back = Null

\* back = src.type.walk(src.value, process)
Walk ==
    /\ pc = "start"
    /\ back' = walk(src.type, src.value)
    /\ pc' = "walked"
    /\ UNCHANGED <<src, out, json>>

\* src.type.walkAsync(src.value, process) up to its await: out is the state
\* of the walk, json the outcome of the promise walkAsync returned and back
\* the promises of the leaves in the order they settled
WalkAsync ==
    /\ pc = "start"
    /\ out' = walkAsyncDescent(src.type, src.process,
                               walkAsyncStart(Store(src.value, <<>>)))
    /\ pc' = IF ~out'.ok THEN "rejected"
             ELSE IF out'.promises = <<>> THEN "resolved" ELSE "awaiting"
    /\ json' = IF ~out'.ok THEN Err(out'.err)
               ELSE IF out'.promises = <<>> THEN walkAsyncReturn(out') ELSE Null
    /\ back' = <<>>
    /\ UNCHANGED src

\* A pending leaf settles: setValue(await result), or the rejection
Settle ==
    /\ pc \in {"awaiting", "resolved", "rejected"}
    /\ \E i \in 1..Len(out.promises) :
         /\ out.promises[i].state = "pending"
         /\ out' = IF out.promises[i].kind = "later"
                   THEN setValue([out EXCEPT !.promises[i].state = "resolved"],
                                 out.promises[i].set, out.promises[i].result)
                   ELSE [out EXCEPT !.promises[i].state = "rejected"]
         /\ back' = Append(back, i)
    /\ UNCHANGED <<pc, src, json>>

\* await Promise.all(promises) is over: a promise was rejected, or all are
\* resolved
Join ==
    /\ pc = "awaiting"
    /\ \/ /\ \E i \in 1..Len(out.promises) : out.promises[i].state = "rejected"
          /\ pc' = "rejected"
          /\ json' = Err("rejected")
       \/ /\ \A i \in 1..Len(out.promises) : out.promises[i].state = "resolved"
          /\ pc' = "resolved"
          /\ json' = walkAsyncReturn(out)
    /\ UNCHANGED <<src, out, back>>

NextWalk == Walk \/ WalkAsync \/ Settle \/ Join

SpecWalk == InitWalk /\ [][NextWalk]_vars

\* The continuation of await Promise.all(promises) is a queued job, and the
\* job queue is run until it is empty: Join is taken once it can be
SpecWalkFair == SpecWalk /\ WF_vars(Join)

(***************************************************************************)
(* ParamType.from on interchange objects whose components are given, or    *)
(* left out, whatever their type says.                                     *)
(***************************************************************************)
ComponentTypes == {"uint8", "uint8[]", "tuple", "tuple[]", "tuple[2][]", "(uint8)"}

ComponentLists ==
    {Null, Some(<<>>), Some(<<JsonType(Some("a"), "uint8", Null, Null)>>),
     Some(<<JsonType(Null, "tuple", Null, Null)>>),
     Some(<<JsonType(Null, "bool", Null, Null),
            JsonType(Some("b"), "tuple[]", Null,
                     Some(<<JsonType(Null, "uint8", Null, Null)>>))>>)}

ComponentSources ==
    { [family |-> "components", allowIndexed |-> a, form |-> "json",
       object |-> JsonType(n, t, Null, c)] :
         a \in BOOLEAN, n \in {Null, Some("a")}, t \in ComponentTypes,
         c \in ComponentLists }

InitComponents ==
    /\ pc = "call"
    /\ src \in ParamSources \cup ComponentSources
    /\ out = Null
    /\ json = Null
    /\ back = Null

\* ParamType.from(src.object, src.allowIndexed)
ParamTypeFromComponents ==
    /\ pc = "call"
    /\ src.form = "json"
    /\ out' = ParamType_fromObject(src.object, src.allowIndexed)
    /\ pc' = "done"
    /\ UNCHANGED <<src, json, back>>

NextComponents == ParamTypeFromText \/ ParamTypeFromObject \/ ParamTypeFromComponents

SpecComponents == InitComponents /\ [][NextComponents]_vars

(***************************************************************************)
(* Fragment.from on named fragments whose name, and whose parameter's      *)
(* name, is any of a few texts.                                            *)
(***************************************************************************)
Names == {"a", "a1", "$x", "_", "", "1a", "a b", "a-b"}

NameSources ==
    { [family |-> "fragment", form |-> f,
       desc |-> Frag(t, k, n, <<Param(Elem("uint8"), <<>>, "none", m)>>, <<>>,
                     "", "", FALSE, FALSE)] :
        t \in {"error", "event", "function", "struct"}, k \in BOOLEAN,
        n \in Names, m \in Names, f \in {"text", "object"} }

InitNames ==
    /\ pc = "call"
    /\ src \in NameSources
    /\ out = Null
    /\ json = Null
    /\ back = Null

NextNames == FragmentFromText \/ VariantFromText \/ FragmentFromObject

SpecNames == InitNames /\ [][NextNames]_vars

(***************************************************************************)
(* Fragment.from on fallback and receive descriptions.                     *)
(***************************************************************************)
FallbackParams ==
    { Param(Elem("bytes"), <<>>, "none", ""),
      Param(Elem("bytes"), <<>>, "none", "x"),
      Param(Elem("bytes32"), <<>>, "none", ""),
      Param(Elem("bytes"), <<-1>>, "none", ""),
      Param(Elem("uint8"), <<>>, "none", "") }

FallbackSources ==
    { [family |-> "fragment", form |-> f,
       desc |-> Frag(t, TRUE, "", i, o, m, "", FALSE, FALSE)] :
        t \in {"fallback", "receive"}, i \in SeqsUpTo(FallbackParams, MaxParams),
        o \in SeqsUpTo(FallbackParams, 1),
        m \in {"", "payable", "view", "pure"}, f \in {"text", "object"} }

InitFallback ==
    /\ pc = "call"
    /\ src \in FallbackSources
    /\ out = Null
    /\ json = Null
    /\ back = Null

NextFallback == FragmentFromText \/ FragmentFromObject

SpecFallback == InitFallback /\ [][NextFallback]_vars

(***************************************************************************)
(* Fragment.from on descriptions of every kind, and of kinds there are     *)
(* not.                                                                    *)
(***************************************************************************)
FragmentKinds ==
    {"constructor", "error", "event", "fallback", "receive", "function", "struct"}

DispatchSources ==
    { [family |-> "fragment", form |-> f,
       desc |-> Frag(t, TRUE,
                     IF t \in {"constructor", "fallback", "receive"} THEN "" ELSE "E",
                     i, <<>>, "", "", FALSE, FALSE)] :
        t \in FragmentKinds \cup {"foo", "modifier"},
        i \in SeqsUpTo(FragmentParams, MaxParams), f \in {"text", "object"} }

InitDispatch ==
    /\ pc = "call"
    /\ src \in DispatchSources
    /\ out = Null
    /\ json = Null
    /\ back = Null

SpecDispatch == InitDispatch /\ [][NextFallback]_vars

(***************************************************************************)
(* The lexer and the factories on words: a type name, a keyword or another *)
(* word, alone or followed by more characters.                             *)
(***************************************************************************)
WordHeads == {"address", "bool", "bytes", "string", "uint", "int", "view", "tuple", "foo", "x"}

WordTails == {"", "8", "256", "erval", "ee", "Data", "_", "8x"}

\* entry lex: lex(word); entry ParamType: ParamType.from("uint256 " + word);
\* entry Fragment: Fragment.from("function foo( uint256 " + word + " )")
WordSources ==
    { [family |-> "pieces", entry |-> "lex", word |-> h \o t, pieces |-> <<h \o t>>] :
        h \in WordHeads, t \in WordTails }
    \cup
    { [family |-> "pieces", entry |-> "ParamType", word |-> h \o t,
       pieces |-> <<"uint256", h \o t>>] : h \in WordHeads, t \in WordTails }
    \cup
    { [family |-> "pieces", entry |-> "Fragment", word |-> h \o t,
       pieces |-> <<"(", "uint256", h \o t, ")">>] : h \in WordHeads, t \in WordTails }

InitWords ==
    /\ pc = "call"
    /\ src \in WordSources
    /\ out = Null
    /\ json = Null
    /\ back = Null

SpecWords == InitWords /\ [][NextPieces]_vars

(***************************************************************************)
(* popParams and consumeParams on the token stream of a text made of       *)
(* parentheses, commas and a type.                                         *)
(***************************************************************************)
\* The most pieces of a parameter list's text
MaxGroup == 6

GroupSources ==
    { [family |-> "group", entry |-> e, pieces |-> p] :
        e \in {"popParams", "consumeParams"},
        p \in SeqsUpTo({"(", ")", ",", "uint8"}, MaxGroup) }

InitGroup ==
    /\ pc = "call"
    /\ src \in GroupSources
    /\ out = Null
    /\ json = Null
    /\ back = Null

\* json = lex(text); out = json.popParams()
PopParams ==
    /\ pc = "call"
    /\ src.entry = "popParams"
    /\ json' = lex(PiecesText(src.pieces))
    /\ out' = Try(json', LAMBDA tokens : popParams(tokens.val))
    /\ pc' = "done"
    /\ UNCHANGED <<src, back>>

\* json = lex(text); out = consumeParams(json)
ConsumeParams ==
    /\ pc = "call"
    /\ src.entry = "consumeParams"
    /\ json' = lex(PiecesText(src.pieces))
    /\ out' = Try(json', LAMBDA tokens : consumeParams(tokens.val, FALSE))
    /\ pc' = "done"
    /\ UNCHANGED <<src, back>>

NextGroup == PopParams \/ ConsumeParams

SpecGroup == InitGroup /\ [][NextGroup]_vars

(***************************************************************************)
(* ParamType.from on interchange objects whose type is written as a tuple. *)
(***************************************************************************)
TupleTypeTexts ==
    {"tuple", "tuple(uint8)", "(uint8)", "tuple(bool,uint8[])", "(bool,uint8[])",
     "tuple()", "()"}

TupleObjectSources ==
    { [family |-> "components", allowIndexed |-> a, form |-> "json",
       object |-> JsonType(n, t, Null, c)] :
         a \in BOOLEAN, n \in {Null, Some("a")}, t \in TupleTypeTexts,
         c \in ComponentLists }

InitTupleObjects ==
    /\ pc = "call"
    /\ src \in TupleObjectSources
    /\ out = Null
    /\ json = Null
    /\ back = Null

SpecTupleObjects == InitTupleObjects /\ [][ParamTypeFromComponents]_vars

(***************************************************************************)
(* format("full") and format("minimal") of a fragment built from text, and *)
(* Fragment.from on the formatted text.                                    *)
(***************************************************************************)
RoundTripSources ==
    { s \in FragmentSources : s.form = "text" /\ s.desc.type # "struct" }
    \cup { s \in FallbackSources : s.form = "text" }

InitRoundTrip ==
    /\ pc = "call"
    /\ src \in RoundTripSources
    /\ out = Null
    /\ json = Null
    /\ back = Null

\* fragment.format("full") and fragment.format("minimal")
FormatText ==
    /\ pc = "done"
    /\ out.ok
    /\ json' = [full |-> Fragment_format(out.val, "full"),
                minimal |-> Fragment_format(out.val, "minimal")]
    /\ pc' = "formatted"
    /\ UNCHANGED <<src, out, back>>

\* Fragment.from(fragment.format("full")) and
\* Fragment.from(fragment.format("minimal"))
ReparseText ==
    /\ pc = "formatted"
    /\ back' = [full |-> Try(json.full, LAMBDA t : Fragment_fromText(t.val)),
                minimal |-> Try(json.minimal, LAMBDA t : Fragment_fromText(t.val))]
    /\ pc' = "reparsed"
    /\ UNCHANGED <<src, out, json>>

NextRoundTrip == FragmentFromText \/ VariantFromText \/ FormatText \/ ReparseText

SpecRoundTrip == InitRoundTrip /\ [][NextRoundTrip]_vars

(***************************************************************************)
(* The tokenizer and the factories on texts with more whitespace: an empty *)
(* piece at the start, between two pieces or at the end is one more space  *)
(* there.                                                                  *)
(***************************************************************************)
SpacedSources ==
    { [family |-> "pieces", entry |-> e, pieces |-> p] :
        e \in {"lex", "ParamType", "Fragment"},
        p \in SeqsUpTo(Pieces \cup {""}, MaxPieces) }

InitSpaced ==
    /\ pc = "call"
    /\ src \in SpacedSources
    /\ out = Null
    /\ json = Null
    /\ back = Null

SpecSpaced == InitSpaced /\ [][NextPieces]_vars

(***************************************************************************)
(* The properties.                                                         *)
(***************************************************************************)
\* A node below p (an array's element type, a tuple's component) carries
\* an indexed flag
RECURSIVE IndexedBelow(_)
IndexedBelow(p) ==
    \/ /\ ~IsNull(p.arrayChildren)
       /\ \/ ~IsNull(p.arrayChildren[1].indexed)
          \/ IndexedBelow(p.arrayChildren[1])
    \/ /\ ~IsNull(p.components)
       /\ \E i \in 1..Len(p.components[1]) :
             \/ ~IsNull(p.components[1][i].indexed)
             \/ IndexedBelow(p.components[1][i])

\* ParamType.from of the source src.desc in the form src.form
FromSource(form, d, allowIndexed) ==
    IF form = "text" THEN ParamType_fromText(ParamText(d), allowIndexed)
    ELSE ParamType_fromObject(ParamObject(d), allowIndexed)

\* C3: on an elementary type, "uint" and "int" become "uint256" and "int256";
\* bytesN is accepted exactly when 1 <= N <= 32 and intN / uintN exactly when
\* N % 8 = 0 and 0 < N <= 256; an accepted type that is no alias is returned
\* unchanged; on the text path and on the interchange-object path alike.
C3_ElementaryCanonical ==
    (pc = "done" /\ src.family = "elementary" /\ src.tail = "") =>
       /\ (~src.hasWidth /\ src.name \in {"uint", "int"}) =>
             (out.ok /\ out.val.type = src.name \o "256")
       /\ (~src.hasWidth /\ src.name \notin {"uint", "int"}) =>
             (out.ok /\ out.val.type = src.name)
       /\ (src.hasWidth /\ src.name = "bytes") =>
             (out.ok <=> (1 <= src.width /\ src.width <= 32))
       /\ (src.hasWidth /\ src.name \in {"uint", "int"}) =>
             (out.ok <=> (src.width % 8 = 0 /\ 0 < src.width /\ src.width <= 256))
       /\ (src.hasWidth /\ src.name \in WidthNames /\ out.ok) =>
             out.val.type = src.desc.base.text

C3_Witness ==
    /\ pc = "done"
    /\ src.family = "elementary"
    /\ src.form = "text"
    /\ src.desc.base.text = "uint"
    /\ out.ok
    /\ out.val.type = "uint256"

\* A type string that matches the whole elementary-type grammar
WholeGrammar(s) == s.tail = "" /\ (s.hasWidth => s.name \in WidthNames)

\* C4: every elementary type string that does not match the whole of
\* address | bool | bytes[0-9]* | string | u?int[0-9]* is refused, on the
\* text path and on the interchange-object path.
C4_WholeGrammarOnly ==
    (pc = "done" /\ src.family = "elementary" /\ ~WholeGrammar(src)) => ~out.ok

\* C5: array suffixes nest right to left: a type text with k >= 1 suffixes
\* gives an array node whose arrayLength is that of the last suffix, whose
\* arrayChildren is the ParamType of the text without its last suffix, and
\* whose type is the element's type followed by the suffix; without a suffix
\* the node is no array.
C5_ArrayNesting ==
    (pc = "done" /\ src.family = "param" /\ src.form = "text") =>
       LET d == src.desc
       IN IF Len(d.suffixes) = 0
          THEN out.ok => (out.val.baseType # "array" /\ IsNull(out.val.arrayLength)
                             /\ IsNull(out.val.arrayChildren))
          ELSE LET inner == ParamType_fromText(
                               ParamText(Param(d.base, Front(d.suffixes), "none", "")),
                               FALSE)
               IN /\ out.ok <=> (inner.ok /\ (d.indexed = "true" => src.allowIndexed))
                  /\ out.ok =>
                       /\ out.val.baseType = "array"
                       /\ out.val.arrayLength = Some(Last(d.suffixes))
                       /\ out.val.arrayChildren = Some(inner.val)
                       /\ out.val.type = inner.val.type \o SuffixText(Last(d.suffixes))
                       /\ IsNull(out.val.components)

C5_Witness ==
    /\ pc = "done"
    /\ src.family = "param"
    /\ src.form = "text"
    /\ ParamText(src.desc) = "uint8[3][]"
    /\ out.ok
    /\ out.val.arrayLength = Some(-1)
    /\ out.val.arrayChildren[1].arrayLength = Some(3)
    /\ out.val.arrayChildren[1].arrayChildren[1].type = "uint8"

\* The source of parameter d carries indexed: the keyword in a text, a
\* non-null indexed field in an interchange object
Carries(form, d) == d.indexed = "true" \/ (form = "object" /\ d.indexed = "false")

\* C6: a source that carries indexed (the keyword, or a non-null indexed
\* field) is refused without allowIndexed; with allowIndexed the same source
\* is accepted with that indexed flag; a tuple member that carries indexed is
\* refused whatever allowIndexed is, and no element of an array and no member
\* of a tuple ever holds an indexed flag.
C6_IndexedGating ==
    (pc = "done" /\ src.family = "param") =>
       LET d == src.desc
           plain == FromSource(src.form, Param(d.base, d.suffixes, "none", d.name),
                               FALSE)
       IN /\ (Carries(src.form, d) /\ ~src.allowIndexed) => ~out.ok
          /\ (Carries(src.form, d) /\ src.allowIndexed /\ plain.ok) =>
                (out.ok /\ out.val.indexed = Some(d.indexed = "true"))
          /\ (~Carries(src.form, d) /\ out.ok) => IsNull(out.val.indexed)
          /\ (d.base.tuple /\ \E i \in 1..Len(d.base.members) :
                                 Carries(src.form, d.base.members[i])) => ~out.ok
          /\ out.ok => ~IndexedBelow(out.val)

C6_Witness ==
    /\ pc = "done"
    /\ src.family = "param"
    /\ src.form = "text"
    /\ src.desc.indexed = "true"
    /\ src.allowIndexed
    /\ out.ok
    /\ out.val.indexed = Some(TRUE)

\* C1: for every fragment f that a factory returns,
\* Fragment.from(f.format("json")) succeeds and returns a fragment equal to f.
C1_JsonRoundTrip == pc = "reparsed" => (back.ok /\ back.val = out.val)

\* C2: Fragment.from of a text that is the JSON serialization of an object
\* that Fragment.from accepts returns the fragment of that object.
C2_JsonTextFirst ==
    (pc = "done" /\ src.family = "fragment" /\ src.form = "json") =>
       LET structured == Fragment_fromObject(FragmentObject(src.desc))
       IN structured.ok => out = structured

\* C7: an Error, Constructor, Function or Struct description with indexed on
\* a parameter at any position of its inputs or outputs is refused, so no
\* such fragment holds a parameter with an indexed flag.
C7_OnlyEventsIndexed ==
    (pc = "done" /\ src.family = "fragment" /\ src.form \in {"text", "object"}
       /\ src.desc.type \in {"error", "constructor", "function", "struct"}) =>
       LET d == src.desc
       IN /\ (\/ \E i \in 1..Len(d.inputs) : Carries(src.form, d.inputs[i])
              \/ \E i \in 1..Len(d.outputs) : Carries(src.form, d.outputs[i]))
                => ~out.ok
          /\ out.ok => \A i \in 1..Len(out.val.inputs) :
                          IsNull(out.val.inputs[i].indexed)

\* The conflict rule: more than one of {constant, payable, nonpayable}, or
\* more than one of {pure, view, payable, nonpayable}
Conflict(keywords) ==
    LET set == setify(keywords)
    IN \/ Cardinality(set \cap {"constant", "payable", "nonpayable"}) > 1
       \/ Cardinality(set \cap {"pure", "view", "payable", "nonpayable"}) > 1

\* C8: consumeMutability, and FunctionFragment.from through it, fails on
\* keywords that break the conflict rule.
C8_ConflictRejected ==
    (pc = "done" /\ src.family = "mutability" /\ Conflict(src.keywords)) => ~out.ok

\* The resolution order of the mutability keywords
Resolve(set) ==
    IF "view" \in set THEN "view"
    ELSE IF "pure" \in set THEN "pure"
    ELSE IF "payable" \in set THEN "payable"
    ELSE IF "nonpayable" \in set THEN "nonpayable"
    ELSE IF "constant" \in set THEN "view"
    ELSE "nonpayable"

\* C9: a function signature whose (distinct) mutability keywords do not
\* conflict parses, every keyword consumed, to the stateMutability that the
\* resolution order gives.
C9_Resolution ==
    (pc = "done" /\ src.family = "mutability" /\ src.entry = "function"
       /\ ~Conflict(src.keywords)
       /\ Cardinality(setify(src.keywords)) = Len(src.keywords)) =>
       (out.ok /\ out.val.stateMutability = Some(Resolve(setify(src.keywords))))

\* C10: EventFragment.from on a text accepts an optional event keyword, a
\* name, a parameter list whose parameters may carry indexed, and an
\* optional anonymous keyword; anonymous is true exactly when the keyword is
\* there, and any other trailing token fails.
C10_EventGrammar ==
    (pc = "done" /\ src.family = "fragment" /\ src.form = "text"
       /\ src.desc.type = "event") =>
       LET d == src.desc
       IN IF d.trail \notin {"", "anonymous"} THEN ~out.ok
          ELSE /\ out.ok
               /\ out.val.anonymous = (d.trail = "anonymous")
               /\ out.val.name = d.name
               /\ Len(out.val.inputs) = Len(d.inputs)
               /\ \A i \in 1..Len(d.inputs) :
                     out.val.inputs[i].indexed
                        = (IF d.inputs[i].indexed = "true" THEN Some(TRUE) ELSE Null)

\* The number of "(" less the number of ")" in the first n pieces
RECURSIVE ParenDepth(_, _)
ParenDepth(pieces, n) ==
    IF n = 0 THEN 0
    ELSE ParenDepth(pieces, n - 1)
         + (IF pieces[n] = "(" THEN 1 ELSE IF pieces[n] = ")" THEN -1 ELSE 0)

\* Some ")" has no "(" before it, or some "(" has no ")" after it
Unbalanced(pieces) ==
    \/ \E n \in 1..Len(pieces) : ParenDepth(pieces, n) < 0
    \/ ParenDepth(pieces, Len(pieces)) # 0

\* The errors that lex raises
LexErrors == {"no matching open bracket", "missing opening bracket", "unexpected token"}

\* C11: on a text with an unmatched open or close parenthesis lex, and
\* Fragment.from and ParamType.from through it, fail with an error of the
\* tokenizer; no such text is tokenized successfully.
C11_UnbalancedFailsInLex ==
    (pc = "done" /\ src.family = "pieces" /\ Unbalanced(src.pieces)) =>
       (~out.ok /\ out.err \in LexErrors)

\* The formats of the components of p, joined by sep
ChildFormats(p, format, sep) ==
    join([i \in 1..Len(p.components[1]) |->
            ParamType_format(p.components[1][i], format)], sep)

\* C12: a tuple ParamType, from text or from an interchange object, formats
\* as "(" children ")" in sighash, as "tuple(" children ")" and " indexed"
\* when indexed in minimal, and in full the same with ", " between the
\* children and " " name after it when named.
C12_TupleFormat ==
    (pc = "formatted" /\ src.family = "param" /\ isTuple(out.val)) =>
       LET p == out.val
           idx == IF p.indexed = Some(TRUE) THEN " indexed" ELSE ""
       IN /\ json.sighash = "(" \o ChildFormats(p, "sighash", ",") \o ")"
          /\ json.minimal = "tuple(" \o ChildFormats(p, "minimal", ",") \o ")" \o idx
          /\ json.full = "tuple(" \o ChildFormats(p, "full", ", ") \o ")" \o idx
                           \o (IF p.name # "" THEN " " \o p.name ELSE "")

\* The type of a described parameter as a signature writes it: no name, no
\* indexed, no tuple keyword, no spaces
RECURSIVE TypeOnlyText(_)
TypeOnlyText(d) ==
    (IF d.base.tuple
     THEN "(" \o join([i \in 1..Len(d.base.members) |->
                         TypeOnlyText(d.base.members[i])], ",") \o ")"
     ELSE d.base.text)
    \o SuffixesText(d.suffixes)

\* The name and the name-free parameter types of a described fragment
SignatureText(d) ==
    d.name \o "(" \o join([i \in 1..Len(d.inputs) |-> TypeOnlyText(d.inputs[i])], ",")
           \o ")"

IsHex(s) ==
    \A i \in 0..(Len(s) - 1) : \E k \in 0..15 : CharAt(s, i) = CharAt("0123456789abcdef", k)

\* C13: the selector of a Function or Error fragment is the first 4 bytes of
\* the hash of name(types), written as "0x" and 8 hexadecimal characters,
\* and the topicHash of an Event fragment is the whole hash of name(types),
\* whatever the parameter names, mutability, outputs and gas are.
C13_SelectorAndTopic ==
    (pc = "hashed" /\ src.family = "fragment") =>
       LET hash == id(SignatureText(src.desc))
       IN /\ json.ok
          /\ src.desc.type \in {"error", "function"} =>
                /\ json.val = Substring(hash, 0, 10)
                /\ Len(json.val) = 10
                /\ Substring(json.val, 0, 2) = "0x"
                /\ IsHex(SubstringFrom(json.val, 2))
          /\ src.desc.type = "event" => json.val = hash

\* A function with a named parameter, a mutability, an output and a gas
\* limit got its selector
C13_Witness ==
    /\ pc = "hashed"
    /\ src.family = "fragment"
    /\ src.desc.type = "function"
    /\ \E i \in 1..Len(src.desc.inputs) : src.desc.inputs[i].name # ""
    /\ src.desc.mutability = "view"
    /\ Len(src.desc.outputs) > 0
    /\ src.desc.gas
    /\ json.ok

\* The kinds of result process gave in the calls walkAsync made of it
KindsGiven == { resultKind(src.process, i) : i \in 1..Len(out.calls) }

\* What walkAsync alone on the value gives when process returns at once
AwaitedAlone(p, value) ==
    Try(walkAsyncDescent(p, <<"now">>, walkAsyncStart(Store(value, <<>>))),
        LAMBDA s : walkAsyncReturn(s))

\* The value is a sequence of a length the array type takes
ArrayShaped(p, value) ==
    /\ value.k = "arr"
    /\ p.arrayLength[1] = -1 \/ Len(value.items) = p.arrayLength[1]

\* The shape error an array type has for the value
ArrayShapeError(p, value) ==
    IF value.k # "arr" THEN Err("invlaid array value") ELSE Err("array is wrong length")

\* C14 (walker array shape): for an array type, walk and walkAsync fail with
\* a shape error on a value that is not a sequence and on a sequence whose
\* length differs from a fixed arrayLength; on a sequence of the right
\* length (any length when arrayLength is -1) the outcome is a sequence of
\* the same length whose i-th element is the walk of the i-th element, and
\* the walk fails only where the walk of an element fails.
C14_ArrayShape ==
    isArray(src.type) =>
      /\ pc = "walked" =>
           IF ~ArrayShaped(src.type, src.value)
           THEN back = ArrayShapeError(src.type, src.value)
           ELSE IF \A i \in 1..Len(src.value.items) :
                     walk(src.type.arrayChildren[1], src.value.items[i]).ok
           THEN /\ back.ok
                /\ back.val.k = "arr"
                /\ Len(back.val.items) = Len(src.value.items)
                /\ \A i \in 1..Len(src.value.items) :
                     back.val.items[i]
                       = walk(src.type.arrayChildren[1], src.value.items[i]).val
           ELSE ~back.ok
      /\ pc \in {"awaiting", "resolved", "rejected"} =>
           IF ~ArrayShaped(src.type, src.value)
           THEN pc = "rejected" /\ json = ArrayShapeError(src.type, src.value)
           ELSE /\ pc = "resolved" =>
                     /\ json.ok
                     /\ json.val.k = "arr"
                     /\ Len(json.val.items) = Len(src.value.items)
                     /\ \A i \in 1..Len(src.value.items) :
                          json.val.items[i]
                            = AwaitedAlone(src.type.arrayChildren[1],
                                           src.value.items[i]).val
                /\ pc = "rejected" =>
                     \/ KindsGiven \cap {"fail", "undefined"} # {}
                     \/ \E i \in 1..Len(src.value.items) :
                          ~AwaitedAlone(src.type.arrayChildren[1],
                                        src.value.items[i]).ok

\* walkAsync has resolved, after two pending leaves, with the walked
\* sequence of a two-element value of an array type of length 2
C14_Witness ==
    /\ isArray(src.type)
    /\ src.type.arrayLength = Some(2)
    /\ pc = "resolved"
    /\ json.ok
    /\ Len(out.promises) = 2

\* The value is a sequence with an entry for every component
TupleSequence(p, value) ==
    value.k = "arr" /\ Len(value.items) = Len(p.components[1])

\* The value is a keyed mapping, every component is named and the mapping
\* has an entry for every component name
TupleMapping(p, value) ==
    /\ value.k = "obj"
    /\ \A i \in 1..Len(p.components[1]) :
         /\ p.components[1][i].name # ""
         /\ ~IsNull(property(value.entries, p.components[1][i].name, 1))

\* The entry of the value for the i-th component
TupleEntry(p, value, i) ==
    IF value.k = "arr" THEN value.items[i]
    ELSE property(value.entries, p.components[1][i].name, 1)[1]

\* C15 (walker tuple values): for a tuple type, walk and walkAsync accept a
\* sequence with one entry per component and a keyed mapping with an entry
\* for every component name, and fail on a mapping when a component is
\* unnamed or a key is absent; the outcome of an accepted value is a
\* sequence with the walked entry of each component, in component order.
C15_TupleValues ==
    isTuple(src.type) =>
      /\ pc = "walked" =>
           IF ~(TupleSequence(src.type, src.value) \/ TupleMapping(src.type, src.value))
           THEN ~back.ok
           ELSE IF \A i \in 1..Len(src.type.components[1]) :
                     walk(src.type.components[1][i],
                          TupleEntry(src.type, src.value, i)).ok
           THEN /\ back.ok
                /\ back.val.k = "arr"
                /\ Len(back.val.items) = Len(src.type.components[1])
                /\ \A i \in 1..Len(src.type.components[1]) :
                     back.val.items[i]
                       = walk(src.type.components[1][i],
                              TupleEntry(src.type, src.value, i)).val
           ELSE ~back.ok
      /\ pc \in {"awaiting", "resolved", "rejected"} =>
           IF ~(TupleSequence(src.type, src.value) \/ TupleMapping(src.type, src.value))
           THEN pc = "rejected" /\ ~json.ok
           ELSE /\ pc = "resolved" =>
                     /\ json.ok
                     /\ json.val.k = "arr"
                     /\ Len(json.val.items) = Len(src.type.components[1])
                     /\ \A i \in 1..Len(src.type.components[1]) :
                          json.val.items[i]
                            = AwaitedAlone(src.type.components[1][i],
                                           TupleEntry(src.type, src.value, i)).val
                /\ pc = "rejected" =>
                     \/ KindsGiven \cap {"fail", "undefined"} # {}
                     \/ \E i \in 1..Len(src.type.components[1]) :
                          ~AwaitedAlone(src.type.components[1][i],
                                        TupleEntry(src.type, src.value, i)).ok

\* The walked value: at each elementary position the leaf's result for the
\* value at that position, arrays and tuples keeping the order of their
\* elements and components
RECURSIVE Walked(_, _)
Walked(p, value) ==
    IF isArray(p)
    THEN Arr([i \in 1..Len(value.items) |-> Walked(p.arrayChildren[1], value.items[i])])
    ELSE IF isTuple(p)
    THEN Arr([i \in 1..Len(p.components[1]) |->
               Walked(p.components[1][i], TupleEntry(p, value, i))])
    ELSE Leaf(p.type, value)

\* The leaves of a walked value, depth first
RECURSIVE LeavesOf(_)
RECURSIVE LeavesOfAll(_, _)
LeavesOfAll(items, i) ==
    IF i > Len(items) THEN <<>> ELSE LeavesOf(items[i]) \o LeavesOfAll(items, i + 1)

LeavesOf(tree) ==
    IF tree.k = "arr" THEN LeavesOfAll(tree.items, 1) ELSE <<tree>>

\* C16 (async fan-out/fan-in): the descent of walkAsync calls process
\* exactly once for every elementary position, depth first, before any
\* pending result is awaited, and no call is made later; walkAsync is
\* resolved only when every pending leaf result is resolved; the resolved
\* value holds at each position that position's leaf result, in the
\* original order, whatever the order in which the pending results settled.
C16_FanOutFanIn ==
    (pc \in {"awaiting", "resolved", "rejected"} /\ out.ok) =>
      /\ [i \in 1..Len(out.calls) |-> Tree(out.heap, out.calls[i])]
           = LeavesOf(Walked(src.type, src.value))
      /\ Len(out.promises)
           = Cardinality({ i \in 1..Len(out.calls) :
                           resultKind(src.process, i) \in {"later", "fail"} })
      /\ pc = "awaiting" => json = Null
      /\ pc = "resolved" =>
           /\ \A i \in 1..Len(out.promises) : out.promises[i].state = "resolved"
           /\ json = Ok(Walked(src.type, src.value))

\* walkAsync has resolved on a tuple of three leaves whose pending results
\* settled last, first, second
C16_Witness ==
    /\ pc = "resolved"
    /\ isTuple(src.type)
    /\ Len(out.promises) = 3
    /\ back = <<3, 1, 2>>
    /\ json = Ok(Walked(src.type, src.value))

\* A pending leaf result of the walk has been rejected
LeafRejected ==
    /\ pc \in {"awaiting", "resolved", "rejected"}
    /\ \E i \in 1..Len(out.promises) : out.promises[i].state = "rejected"

\* walkAsync is not resolved after a rejected leaf, what it resolves with is
\* the wholly walked value, and the caller's value is as it was given
WholeOrNothing ==
    pc \in {"awaiting", "resolved", "rejected"} =>
      /\ LeafRejected => pc # "resolved"
      /\ pc = "resolved" => json = Ok(Walked(src.type, src.value))
      /\ pc = "rejected" => ~json.ok
      /\ Tree(out.heap, out.value) = src.value

\* C17 (async failure is all-or-nothing): once a pending leaf result is
\* rejected walkAsync is rejected, and it never resolves with a partly
\* walked value, in whatever order the other leaves settle; the caller's
\* value is unmodified while and after walkAsync runs, resolved or rejected.
C17_AllOrNothing == []WholeOrNothing /\ (LeafRejected ~> pc = "rejected")

\* walkAsync is rejected after the second of three pending leaves was
\* rejected and the third resolved, the caller's value being as given
C17_Witness ==
    /\ pc = "rejected"
    /\ Len(out.promises) = 3
    /\ out.promises[2].state = "rejected"
    /\ out.promises[3].state = "resolved"
    /\ out.promises[1].state = "pending"
    /\ Tree(out.heap, out.value) = src.value

\* The node and every node below it has components exactly when it is a
\* tuple and arrayLength and arrayChildren exactly when it is an array
RECURSIVE Structured(_)
Structured(p) ==
    /\ ~IsNull(p.components) <=> p.baseType = "tuple"
    /\ ~IsNull(p.arrayLength) <=> p.baseType = "array"
    /\ ~IsNull(p.arrayChildren) <=> p.baseType = "array"
    /\ ~(~IsNull(p.components) /\ ~IsNull(p.arrayChildren))
    /\ ~IsNull(p.components) =>
         \A i \in 1..Len(p.components[1]) : Structured(p.components[1][i])
    /\ ~IsNull(p.arrayChildren) => Structured(p.arrayChildren[1])

\* C18 (ParamType structural invariant): in every ParamType a factory
\* returns, and in every node below it, components is non-null exactly when
\* baseType is tuple, arrayLength and arrayChildren are non-null exactly
\* when baseType is array, and no node has both; an array of tuples has the
\* tuple, with its components, as arrayChildren and no components itself.
C18_Structure ==
    (pc = "done" /\ out.ok) => Structured(out.val)

\* An array of tuples made from an interchange object: the tuple with its
\* components is below the array
C18_Witness ==
    /\ pc = "done"
    /\ out.ok
    /\ src.form = "json"
    /\ isArray(out.val)
    /\ isTuple(out.val.arrayChildren[1])
    /\ IsNull(out.val.components)
    /\ Len(out.val.arrayChildren[1].components[1]) = 2

\* The whole text is an identifier: [A-Za-z$_][A-Za-z0-9$_]*
WholeIdentifier(s) ==
    /\ Len(s) > 0
    /\ CharAt(s, 0) \in Letters \cup {"$", "_"}
    /\ \A i \in 0..(Len(s) - 1) : CharAt(s, i) \in Letters \cup Digits \cup {"$", "_"}

\* The name of the ParamType, and of every ParamType below it, is empty or
\* an identifier
RECURSIVE NamedByIdentifiers(_)
NamedByIdentifiers(p) ==
    /\ p.name = "" \/ WholeIdentifier(p.name)
    /\ ~IsNull(p.components) =>
         \A i \in 1..Len(p.components[1]) : NamedByIdentifiers(p.components[1][i])
    /\ ~IsNull(p.arrayChildren) => NamedByIdentifiers(p.arrayChildren[1])

\* C19 (identifier validity): every Error, Event, Function and Struct
\* fragment a factory returns, from text or from an interchange object, has
\* a name that is an identifier as a whole, and every ParamType in it has a
\* name that is empty or an identifier as a whole; with any other name the
\* factory fails.
C19_IdentifierValidity ==
    (pc = "done" /\ out.ok) =>
      /\ WholeIdentifier(out.val.name)
      /\ \A i \in 1..Len(out.val.inputs) : NamedByIdentifiers(out.val.inputs[i])

\* C20 (function state invariant): every FunctionFragment a factory
\* returns, from text or from an interchange object, has a stateMutability
\* that is payable, nonpayable, view or pure, is constant exactly when that
\* is view or pure and is payable exactly when that is payable.
C20_FunctionState ==
    (pc = "done" /\ out.ok /\ out.val.type = "function") =>
      /\ out.val.stateMutability
           \in {Some("payable"), Some("nonpayable"), Some("view"), Some("pure")}
      /\ out.val.constant
           = (out.val.stateMutability \in {Some("view"), Some("pure")})
      /\ out.val.payable = (out.val.stateMutability = Some("payable"))

\* The parameter list is a single unnamed parameter of type bytes
OneUnnamedBytes(params) ==
    Len(params) = 1 /\ params[1].type = "bytes" /\ params[1].name = ""

\* C21 (fallback invariant): every FallbackFragment a factory returns has no
\* inputs and is payable (receive), or has exactly one unnamed input of type
\* bytes; a fallback text with other inputs, with a named input, with view
\* or pure, or with a returns clause that is not one unnamed bytes, fails.
C21_FallbackInvariant ==
    pc = "done" =>
      /\ (out.ok /\ out.val.type = "fallback") =>
           \/ out.val.inputs = <<>> /\ out.val.payable
           \/ OneUnnamedBytes(out.val.inputs)
      /\ (out.ok /\ src.form = "text" /\ src.desc.type = "fallback") =>
           /\ src.desc.inputs = <<>>
                \/ src.desc.inputs = <<Param(Elem("bytes"), <<>>, "none", "")>>
           /\ src.desc.mutability \notin {"view", "pure"}
           /\ src.desc.outputs = <<>>
                \/ src.desc.outputs = <<Param(Elem("bytes"), <<>>, "none", "")>>

\* C22 (Fragment.from dispatch errors): Fragment.from returns the variant
\* named by the type field of an object and by the leading keyword of a
\* token stream, and for a kind that is none of constructor, error, event,
\* fallback, receive, function and struct it fails with an
\* unsupported-operation error.
C22_Dispatch ==
    pc = "done" =>
      /\ out.ok =>
           /\ src.desc.type \in FragmentKinds
           /\ out.val.type = (IF src.desc.type = "receive" THEN "fallback"
                              ELSE src.desc.type)
      /\ src.desc.type \notin FragmentKinds => out = Err("UNSUPPORTED_OPERATION")

\* The whole word is address | bool | bytes[0-9]* | string | u?int[0-9]*
WholeType(word) ==
    \/ word \in {"address", "bool", "string"}
    \/ \E base \in {"bytes", "uint", "int"} :
         /\ StartsWith(word, base)
         /\ \A i \in Len(base)..(Len(word) - 1) : CharAt(word, i) \in Digits

\* The kind of token the word is
WordKind(word) ==
    IF word \in Keywords THEN "KEYWORD"
    ELSE IF WholeType(word) THEN "TYPE"
    ELSE "ID"

\* C23 (tokenizer classification): an identifier-shaped word becomes one
\* token, a KEYWORD if it is a reserved keyword, else a TYPE only if the
\* whole word matches the elementary type grammar, else an identifier; a
\* name that only starts with a type name is an identifier, and a parameter
\* after uint256 with such a name parses with that name.
C23_Classification ==
    pc = "done" =>
      /\ src.entry = "lex" =>
           /\ out.ok
           /\ Len(out.val.tokens) = 1
           /\ out.val.tokens[1].text = src.word
           /\ out.val.tokens[1].type = WordKind(src.word)
      /\ (src.entry = "ParamType" /\ WordKind(src.word) = "ID") =>
           /\ out.ok
           /\ out.val.type = "uint256"
           /\ out.val.name = src.word
      /\ (src.entry = "Fragment" /\ WordKind(src.word) = "ID") =>
           /\ out.ok
           /\ Len(out.val.inputs) = 1
           /\ out.val.inputs[1].name = src.word

\* The places (from 0) of the tokens that bound the items of the group that
\* starts the token list: the open paren, the commas of its own nesting
\* level, and the matching close paren
Separators(tokens) ==
    { i \in 0..tokens[1].match :
        \/ i = 0
        \/ i = tokens[1].match
        \/ tokens[i + 1].type = "COMMA" /\ tokens[i + 1].depth = tokens[1].depth + 1 }

\* The texts of the tokens strictly between the places a and b
TextsBetween(tokens, a, b) == [j \in 1..(b - a - 1) |-> tokens[a + j + 1].text]

\* The texts of the tokens of a sub-stream
TextsOf(ts) == [j \in 1..Len(ts.tokens) |-> ts.tokens[j].text]

\* The separator that follows the separator a
NextSeparator(tokens, a) ==
    CHOOSE b \in Separators(tokens) :
      b > a /\ \A c \in Separators(tokens) : c > a => c >= b

\* C24 (parameter-list split): on a stream that starts with an open paren
\* popParams returns no item for an empty group and otherwise one
\* sub-stream per comma-separated item, k + 1 for k commas of the group's
\* own level, each with the tokens between two consecutive separators, and
\* leaves the cursor past the matching close paren; on another stream it
\* fails; a group with a trailing or doubled comma has an empty item and
\* consumeParams rejects it.
C24_ParameterSplit ==
    (pc = "done" /\ json.ok) =>
      /\ (src.entry = "popParams" /\ json.val.tokens # <<>>
            /\ json.val.tokens[1].type = "OPEN_PAREN"
            /\ json.val.tokens[1].match >= 1) =>
           /\ out.ok
           /\ out.ts.offset = json.val.tokens[1].match + 1
           /\ Len(out.val) = (IF json.val.tokens[1].match = 1 THEN 0
                              ELSE Cardinality(Separators(json.val.tokens)) - 1)
           /\ \A a \in Separators(json.val.tokens) \ {json.val.tokens[1].match} :
                json.val.tokens[1].match # 1 =>
                  \E i \in 1..Len(out.val) :
                    /\ i = 1 + Cardinality({ c \in Separators(json.val.tokens) : c < a })
                    /\ TextsOf(out.val[i])
                         = TextsBetween(json.val.tokens, a,
                                        NextSeparator(json.val.tokens, a))
      /\ (src.entry = "popParams"
            /\ (json.val.tokens = <<>> \/ json.val.tokens[1].type # "OPEN_PAREN")) =>
           ~out.ok
      /\ (src.entry = "consumeParams" /\ out.ok /\ json.val.tokens[1].match >= 1) =>
           \A a \in Separators(json.val.tokens) \ {json.val.tokens[1].match} :
             \/ json.val.tokens[1].match = 1
             \/ NextSeparator(json.val.tokens, a) > a + 1

\* The places (from 0) reached from the place i by following linkNext
RECURSIVE ChainFrom(_, _)
ChainFrom(tokens, i) ==
    IF tokens[i + 1].linkNext > i /\ tokens[i + 1].linkNext < Len(tokens)
    THEN <<i>> \o ChainFrom(tokens, tokens[i + 1].linkNext)
    ELSE <<i>>

\* The open paren at the place i is linked with its close paren and with the
\* commas of its group
GroupLinked(tokens, i) ==
    LET m == tokens[i + 1].match
        chain == ChainFrom(tokens, i)
    IN /\ m > i
       /\ m < Len(tokens)
       /\ tokens[m + 1].type = "CLOSE_PAREN"
       /\ tokens[m + 1].match = i
       /\ tokens[m + 1].depth = tokens[i + 1].depth
       /\ \A j \in (i + 1)..(m - 1) : tokens[j + 1].depth > tokens[i + 1].depth
       /\ { chain[n] : n \in 1..Len(chain) }
            = {i, m} \cup { j \in (i + 1)..(m - 1) :
                             /\ tokens[j + 1].type = "COMMA"
                             /\ tokens[j + 1].depth = tokens[i + 1].depth + 1 }
       /\ chain[Len(chain)] = m
       /\ \A n \in 1..(Len(chain) - 1) :
            /\ chain[n] < chain[n + 1]
            /\ tokens[chain[n + 1] + 1].linkBack = chain[n]

\* Every open paren of the token list is linked
Linked(tokens) ==
    \A i \in 0..(Len(tokens) - 1) :
      tokens[i + 1].type = "OPEN_PAREN" => GroupLinked(tokens, i)

\* C25 (token link invariant): in the tokens of every text the tokenizer
\* accepts, an open paren and its close paren name each other in match and
\* have the same depth, the tokens between them are deeper, linkNext from
\* the open paren visits the commas of the group's level in order and ends
\* at the close paren, and linkBack is the inverse chain; the sub-streams
\* popParams cuts keep these relations within their own tokens.
C25_TokenLinks ==
    (pc = "done" /\ json.ok) =>
      /\ Linked(json.val.tokens)
      /\ (src.entry = "popParams" /\ out.ok) =>
           \A n \in 1..Len(out.val) : Linked(out.val[n].tokens)

\* The type text is "tuple", or starts with "tuple(" or with "("
TupleTyped(type) ==
    type = "tuple" \/ StartsWith(type, "tuple(") \/ StartsWith(type, "(")

\* C26 (interchange-object tuple detection): ParamType.from on an object
\* whose type is "tuple", or starts with "tuple(", or starts with "(",
\* returns a tuple node whose components are the converted components of
\* the object, in order.
C26_TupleDetection ==
    (/\ pc = "done"
     /\ TupleTyped(src.object.type)
     /\ ~IsNull(src.object.components)
     /\ \A i \in 1..Len(src.object.components[1]) :
          ParamType_fromObject(src.object.components[1][i], FALSE).ok) =>
      /\ out.ok
      /\ isTuple(out.val)
      /\ Len(out.val.components[1]) = Len(src.object.components[1])
      /\ \A i \in 1..Len(src.object.components[1]) :
           out.val.components[1][i]
             = ParamType_fromObject(src.object.components[1][i], FALSE).val

\* The fields of a node that do not depend on how it was written: the type
\* string, baseType, arrayLength, and the same of the element and components
RECURSIVE Shape(_)
Shape(p) ==
    [type |-> p.type, baseType |-> p.baseType, arrayLength |-> p.arrayLength,
     arrayChildren |-> IF IsNull(p.arrayChildren) THEN Null
                       ELSE Some(Shape(p.arrayChildren[1])),
     components |-> IF IsNull(p.components) THEN Null
                    ELSE Some([i \in 1..Len(p.components[1]) |->
                                 Shape(p.components[1][i])])]

\* C27 (text path and interchange-object path agree): for every type text
\* that ParamType.from accepts, the interchange object describing the same
\* type is accepted too and gives a node with the same type string,
\* baseType, arrayLength, arrayChildren and components.
C27_PathsAgree ==
    (pc = "done" /\ src.form = "text" /\ out.ok) =>
      /\ ParamType_fromObject(ParamObject(src.desc), src.allowIndexed).ok
      /\ Shape(ParamType_fromObject(ParamObject(src.desc), src.allowIndexed).val)
           = Shape(out.val)

\* A parameter without its name and the names of its element and components
RECURSIVE Unnamed(_)
Unnamed(p) ==
    [p EXCEPT !.name = "",
              !.arrayChildren = IF IsNull(@) THEN Null ELSE Some(Unnamed(@[1])),
              !.components = IF IsNull(@) THEN Null
                             ELSE Some([i \in 1..Len(@[1]) |-> Unnamed(@[1][i])])]

UnnamedAll(params) == [i \in 1..Len(params) |-> Unnamed(params[i])]

\* A fragment without the names of its parameters
WithoutParamNames(f) ==
    IF f.type = "function"
    THEN [f EXCEPT !.inputs = UnnamedAll(@), !.outputs = UnnamedAll(@)]
    ELSE [f EXCEPT !.inputs = UnnamedAll(@)]

\* C28 (text round-trip): for a Constructor, Error, Event, Fallback or
\* Function fragment built from text, Fragment.from accepts format("full")
\* and format("minimal"), and the re-parsed fragment has the same variant,
\* name, parameter types, indexed flags, mutability, payable, anonymous and
\* gas, and for "full" the same parameter names.
C28_TextRoundTrip ==
    pc = "reparsed" =>
      /\ back.full.ok
      /\ back.full.val = out.val
      /\ back.minimal.ok
      /\ WithoutParamNames(back.minimal.val) = WithoutParamNames(out.val)

\* The pieces without the empty ones: the same text without the added
\* whitespace
Unspaced(pieces) == SelectSeq(pieces, LAMBDA p : p # "")

\* What the entry point makes of a text
EntryOf(entry, pieces) ==
    CASE entry = "lex" -> lex(PiecesText(pieces))
      [] entry = "ParamType" -> ParamType_fromText(PiecesText(pieces), FALSE)
      [] OTHER -> Fragment_fromText("function foo" \o PiecesText(pieces))

\* A result without the offsets of its tokens in the text
Unplaced(entry, r) ==
    IF entry = "lex"
    THEN [i \in 1..Len(r.val.tokens) |-> [r.val.tokens[i] EXCEPT !.offset = 0]]
    ELSE r.val

\* The added whitespace does not split a token: Fragment.from is called on
\* "function foo" followed by the pieces, so a space before a first piece
\* that is a word would cut the name in two
BetweenTokens ==
    ~(/\ src.entry = "Fragment"
      /\ Len(Unspaced(src.pieces)) > 0
      /\ src.pieces[1] = ""
      /\ Unspaced(src.pieces)[1] \in {"uint8", "a"})

\* C29 (whitespace insensitivity): a text the tokenizer accepts is accepted
\* as well with whitespace added before the first token, between two
\* separated tokens or after the last token, and gives the same token
\* kinds, texts, depths and links, and the same ParamType or Fragment.
C29_Whitespace ==
    (pc = "done" /\ BetweenTokens /\ EntryOf(src.entry, Unspaced(src.pieces)).ok) =>
      /\ out.ok
      /\ Unplaced(src.entry, out)
           = Unplaced(src.entry, EntryOf(src.entry, Unspaced(src.pieces)))

\* Every tuple of the value is given as an ordered sequence, not as a keyed
\* mapping
RECURSIVE Sequenced(_, _)
Sequenced(p, value) ==
    IF isArray(p)
    THEN value.k = "arr" =>
           \A i \in 1..Len(value.items) : Sequenced(p.arrayChildren[1], value.items[i])
    ELSE IF isTuple(p)
    THEN /\ value.k # "obj"
         /\ TupleSequence(p, value) =>
              \A i \in 1..Len(value.items) : Sequenced(p.components[1][i], value.items[i])
    ELSE TRUE

\* Every result of process is there when process returns: a value, or
\* undefined
Immediate(process) ==
    \A i \in 1..Len(process) : process[i] \in {"now", "undefined"}

\* C30 (sync/async walker agreement): for a value whose tuples are ordered
\* sequences and a leaf callback that returns immediately, whatever it
\* returns, walkAsync resolves to the value walk returns, and walkAsync
\* fails exactly when walk fails.
C30_WalkersAgree ==
    (/\ pc \in {"resolved", "rejected"}
     /\ Sequenced(src.type, src.value)
     /\ Immediate(src.process)) =>
      /\ json.ok = walk(src.type, src.value).ok
      /\ json.ok => json.val = walk(src.type, src.value).val

====
